---- MODULE Spec2Model ----
(***************************************************************************)
(* Model of the GGUF metadata pipeline of ai-model-tracker:                *)
(*   gguf_parser.py    the extraction client (single attempt, retry loop,  *)
(*                     normalisation of the tool's JSON),                  *)
(*   model_scraper.py  file listing, choice of the representative file,    *)
(*                     enrichment of a model record and the scrape passes. *)
(*                                                                         *)
(* Python values are carried as tagged records: None is [t |-> "null"], a  *)
(* string is [t |-> "str", v |-> <<characters>>], an int is                *)
(* [t |-> "num", v |-> n], a list is [t |-> "arr", v |-> <<...>>], a dict  *)
(* is [t |-> "obj", v |-> [key |-> value, ...]] and a raised exception is  *)
(* [t |-> "raise", exc |-> <class name>].  Strings the code inspects are   *)
(* tuples of one-character strings, so that lower(), endswith() and the    *)
(* substring test are computed and not assumed.                            *)
(***************************************************************************)
EXTENDS Integers, Sequences, FiniteSets, TLC

VARIABLES
    fpc,        \* harness of the pure functions: "call" or "returned"
    arg,        \* the argument the function is called with
    out,        \* the value it returned
    cpc,        \* _run_parser_with_retry: "idle", "loop", "sleep" or "done"
    args,       \* its parameter args
    retries,    \* its parameter retries
    attempt,    \* the loop variable of `for attempt in range(retries)`
    delay,      \* its local delay
    result,     \* the value of the last _run_parser(args)
    ret,        \* what the call returned (or the exception it raised)
    events,     \* what the call did so far: _run_parser calls and sleeps
    available,  \* GGUF_PARSER_AVAILABLE
    epc,        \* enrich_model_with_gguf_metadata: "idle", "parse" (in
                \* parse_fn), "done" (returned) or "raised"
    source,     \* its parameter source
    given,      \* the record it was called with
    model_dict, \* its parameter model_dict, which it updates in place
    answer,     \* what the hub answered to the listing request
    repo_id,    \* its locals repo_id and gguf_file
    found_files,    \* its local gguf_files
    gguf_file,
    gguf_metadata,  \* its local metadata
    spc,        \* scrape_huggingface, scrape_modelscope: "idle", "request",
                \* "loop", "enrich" (in the enrichment) or "done"
    hub,        \* which of the two is running
    query,      \* the listing query it is at (1..3 on Hugging Face)
    data,       \* the list being iterated
    pos,        \* the position of the loop in it
    models,     \* its local models, the list it returns
    seen_urls,  \* its local seen_urls
    trace,      \* what the pass did so far
    scraping_in_progress,   \* web_dashboard: the module global of that name
    scraping_status,        \* the module global dict last_update, last_result
    clock,      \* what datetime.now() reads next
    rpc,        \* per request thread of /api/refresh: "idle", "test",
                \* "set", "stamp" or "start"
    answered,   \* per request thread: what its last request was answered
    wpc,        \* per background thread: "none" (not started), "main" (in
                \* model_scraper.main), "finally" (last_result written),
                \* "exiting" (SystemExit under way) or "ended"
    finished,   \* the background thread that ended last and whether it
                \* had written last_result; None before the first
    db_rows,    \* model_scraper: the committed rows of the table models
    db_seq,     \* the AUTOINCREMENT counter of the table (sqlite_sequence)
    db_clock,   \* what datetime.now() and CURRENT_TIMESTAMP read next
    db_saves,   \* how many times save_models_to_db was called
    db_batch,   \* the records of the last call
    db_first,   \* the rows after the first save of db_batch; None when the
                \* last call was not a repetition
    db_ret,     \* what the last call returned
    db_history, \* per url, the first and the last record whose statement
                \* was executed without an error
    repo_files, \* the hubs: per repository id, which of ListingChoices its
                \* file listing is answered with
    earlier     \* the attempt and the delay the last finished call of the
                \* extraction client had reached; None before the first

fvars == <<fpc, arg, out>>
cvars == <<cpc, args, retries, attempt, delay, result, ret, events>>
evars == <<available, epc, source, given, model_dict, answer, repo_id,
           found_files, gguf_file, gguf_metadata>>
svars == <<spc, hub, query, data, pos, models, seen_urls, trace>>
dvars == <<scraping_in_progress, scraping_status, clock, rpc, answered, wpc,
           finished>>
bvars == <<db_rows, db_seq, db_clock, db_saves, db_batch, db_first, db_ret,
           db_history>>
xvars == <<dvars, bvars, repo_files, earlier>>
vars == <<fvars, cvars, evars, svars, xvars>>

-----------------------------------------------------------------------------
(* Python values *)

None == [t |-> "null"]
Str(s) == [t |-> "str", v |-> s]
Num(n) == [t |-> "num", v |-> n]
Bool(b) == [t |-> "bool", v |-> b]
Arr(s) == [t |-> "arr", v |-> s]
Obj(f) == [t |-> "obj", v |-> f]
Raise(e) == [t |-> "raise", exc |-> e]

IsRaise(x) == x.t = "raise"

-----------------------------------------------------------------------------
(* str.lower(), str.endswith(), the `in` test on strings, str.strip() *)

UpperChars == <<"A", "B", "C", "D", "E", "F", "G", "H", "I", "J", "K", "L", "M",
                "N", "O", "P", "Q", "R", "S", "T", "U", "V", "W", "X", "Y", "Z">>
LowerChars == <<"a", "b", "c", "d", "e", "f", "g", "h", "i", "j", "k", "l", "m",
                "n", "o", "p", "q", "r", "s", "t", "u", "v", "w", "x", "y", "z">>

Letters == {UpperChars[i] : i \in 1..Len(UpperChars)}

\* the lower-case letter of each upper-case letter
LowerOfUpper ==
    [c \in Letters |-> LowerChars[CHOOSE i \in 1..Len(UpperChars) : UpperChars[i] = c]]

LowerChar(c) == IF c \in Letters THEN LowerOfUpper[c] ELSE c

Lower(s) == [i \in 1..Len(s) |-> LowerChar(s[i])]

\* needle in hay
Contains(hay, needle) ==
    \E i \in 0..(Len(hay) - Len(needle)) :
        \A j \in 1..Len(needle) : hay[i + j] = needle[j]

\* a plausible slip: the suffix looked for anywhere in the name, `suffix in s`
SuffixAnywhere(s, suffix) == Contains(s, suffix)

EndsWith(s, suffix) ==
    /\ Len(s) >= Len(suffix)
    /\ \A j \in 1..Len(suffix) : s[Len(s) - Len(suffix) + j] = suffix[j]

-----------------------------------------------------------------------------
(* Python's evaluation of the expressions the code uses.  Every operator is *)
(* total on the tagged values and hands a raised exception on.              *)

Flt(n, d) == [t |-> "float", n |-> n, d |-> d]      \* the float n / d

EmptyDict == Obj([k \in {} |-> None])
EmptyList == Arr(<<>>)

\* bool(x)
Truthy(x) ==
    CASE x.t = "null" -> FALSE
      [] x.t = "bool" -> x.v
      [] x.t = "num" -> x.v # 0
      [] x.t = "float" -> x.n # 0
      [] x.t = "str" -> Len(x.v) > 0
      [] x.t = "arr" -> Len(x.v) > 0
      [] x.t = "obj" -> DOMAIN x.v # {}
      [] OTHER -> FALSE

\* d.get(k, dflt): only a dict has .get
PyGet(d, k, dflt) ==
    CASE d.t = "raise" -> d
      [] d.t = "obj" -> IF k \in DOMAIN d.v THEN d.v[k] ELSE dflt
      [] OTHER -> Raise("AttributeError")

\* x[0]
Subscript0(x) ==
    CASE x.t = "raise" -> x
      [] x.t = "arr" -> IF Len(x.v) > 0 THEN x.v[1] ELSE Raise("IndexError")
      [] x.t = "str" -> IF Len(x.v) > 0 THEN Str(<<x.v[1]>>) ELSE Raise("IndexError")
      [] x.t = "obj" -> Raise("KeyError")
      [] OTHER -> Raise("TypeError")

\* `a if c else b`, and `if c: a` with b for the value kept
IfTruthy(c, a, b) == IF IsRaise(c) THEN c ELSE IF Truthy(c) THEN a ELSE b

\* a or b
PyOr(a, b) == IF IsRaise(a) THEN a ELSE IF Truthy(a) THEN a ELSE b

\* the nearest integer to n / d, a tie going to the even one (n >= 0, d > 0)
RoundHalfEven(n, d) ==
    LET q == n \div d
        r == n % d
    IN  IF 2 * r < d THEN q
        ELSE IF 2 * r > d THEN q + 1
        ELSE IF q % 2 = 0 THEN q ELSE q + 1

\* The nearest integer to b * num / 2^k, a tie going to the even one, for an
\* int 0 <= b < 2^31, num <= 25 and 14 <= k <= 30.  The product is computed
\* in two halves of 14 bits so that no intermediate value leaves 32 bits.
ScaledRound(b, num, k) ==
    LET hi == b \div 16384
        lo == b % 16384
        a == hi * num + (lo * num) \div 16384
        f == (lo * num) % 16384
        unit == 2 ^ (k - 14)
        q == a \div unit
        r == (a % unit) * 16384 + f             \* in units of 2^-k
        half == 2 ^ (k - 1)
    IN  IF r < half THEN q
        ELSE IF r > half THEN q + 1
        ELSE IF q % 2 = 0 THEN q ELSE q + 1

\* round(b / (1024 ** 3), 1) written in hundredths: one decimal too few
GbWholeTenths(b) == 10 * ScaledRound(b, 5, 29)

\* round(b / (1024 ** 3), 2) in hundredths: the quotient by a power of two is
\* an exact double and round() rounds the exact value, ties to even;
\* b * 100 / 2^30 = b * 25 / 2^28
GbHundredths(b) == ScaledRound(b, 25, 28)

\* round(b / (1024 ** 3), 1) in tenths; b * 10 / 2^30 = b * 5 / 2^29
GbTenths(b) == ScaledRound(b, 5, 29)

\* round(x / (1024 ** 3), 2) if x else None (a byte count is a whole number)
GbOrNone(x) ==
    CASE x.t = "raise" -> x
      [] ~Truthy(x) -> None
      [] x.t = "num" -> Flt(GbHundredths(x.v), 100)
      [] x.t = "bool" -> Flt(GbHundredths(1), 100)
      [] x.t = "float" /\ x.d = 1 -> Flt(GbHundredths(x.n), 100)
      [] OTHER -> Raise("TypeError")

\* round(x, 2) if x else None
Round2OrNone(x) ==
    CASE x.t = "raise" -> x
      [] ~Truthy(x) -> None
      [] x.t = "num" -> x
      [] x.t = "bool" -> Num(1)
      [] x.t = "float" -> Flt(RoundHalfEven(x.n * 100, x.d), 100)
      [] OTHER -> Raise("TypeError")

DigitChars == <<"0", "1", "2", "3", "4", "5", "6", "7", "8", "9">>

\* str(n) for an int n >= 0
RECURSIVE DecimalDigits(_)
DecimalDigits(n) ==
    IF n < 10 THEN <<DigitChars[n + 1]>>
    ELSE Append(DecimalDigits(n \div 10), DigitChars[(n % 10) + 1])

\* The decimal ties of params / 1_000_000_000 that are no exact doubles: the
\* double nearest to x.x5 lies below it (FALSE) or above it (TRUE), and
\* "{:.1f}" rounds that double.  Ties at .25 and .75 are exact and go to even.
TieDoubleAbove ==
    [k \in {21, 23, 27, 29, 31, 33, 37, 39, 41} |->
        k \in {21, 27, 31, 37}]

\* f"{params / 1_000_000_000:.1f}B" for an int 10^9 <= params < 2^31
FormatBillions(params) ==
    LET q == params \div 100000000               \* tenths, rounded down
        r == params % 100000000
        k == params \div 50000000
        tenths == IF r < 50000000 THEN q
                  ELSE IF r > 50000000 THEN q + 1
                  ELSE IF k \in DOMAIN TieDoubleAbove
                       THEN (IF TieDoubleAbove[k] THEN q + 1 ELSE q)
                       ELSE (IF q % 2 = 0 THEN q ELSE q + 1)
    IN  DecimalDigits(tenths \div 10) \o <<".">>
          \o DecimalDigits(tenths % 10) \o <<"B">>

\* f"{params / 1_000_000:.0f}M": k + 1/2 is an exact double, ties go to even
\* the millions cut off, not rounded
FormatMillionsFloor(params) ==
    DecimalDigits(params \div 1000000) \o <<"M">>

FormatMillions(params) ==
    DecimalDigits(RoundHalfEven(params, 1000000)) \o <<"M">>

\* lines 187-193, for the values of `params` the tool's JSON can hold
ParamsStr(params) ==
    CASE params.t = "raise" -> params
      [] params.t = "num" ->
            IF params.v >= 1000000000 THEN Str(FormatBillions(params.v))
            ELSE IF params.v >= 1000000 THEN Str(FormatMillions(params.v))
            ELSE Str(DecimalDigits(params.v))
      [] OTHER -> Raise("TypeError")

\* the first exception raised, in evaluation order, or None
RECURSIVE FirstRaise(_, _)
FirstRaise(values, i) ==
    IF i > Len(values) THEN None
    ELSE IF IsRaise(values[i]) THEN values[i]
    ELSE FirstRaise(values, i + 1)

-----------------------------------------------------------------------------
(* gguf_parser._extract_metadata *)

ExtractMetadata(raw) ==
    LET metadata == PyGet(raw, "metadata", EmptyDict)
        architecture == PyGet(raw, "architecture", EmptyDict)
        estimate == PyGet(raw, "estimate", EmptyDict)
        \* lines 172-177
        items == PyGet(estimate, "items", None)
        vrams == PyGet(Subscript0(items), "vrams", EmptyList)
        vram_bytes ==
            IfTruthy(items,
                     IfTruthy(vrams, PyGet(Subscript0(vrams), "nonuma", Num(0)), Num(0)),
                     Num(0))
        vram_gb == GbOrNone(vram_bytes)
        \* lines 180-184
        ram_info == PyGet(Subscript0(items), "ram", EmptyDict)
        ram_bytes == IfTruthy(items, PyGet(ram_info, "nonuma", Num(0)), Num(0))
        ram_gb == GbOrNone(ram_bytes)
        \* lines 187-193
        params_str == ParamsStr(PyGet(metadata, "parameters", Num(0)))
        \* lines 195-210
        f_architecture == PyOr(PyGet(metadata, "architecture", None),
                               PyGet(architecture, "architecture", None))
        f_quantization == PyGet(metadata, "fileTypeDetail", None)
        f_parameters == PyGet(metadata, "parameters", None)
        f_context_length == PyGet(architecture, "maximumContextLength", None)
        f_embedding_length == PyGet(architecture, "embeddingLength", None)
        f_file_size_bytes == PyGet(metadata, "fileSize", None)
        f_file_size_gb ==
            IfTruthy(PyGet(metadata, "fileSize", None),
                     GbOrNone(PyGet(metadata, "fileSize", Num(0))), None)
        f_bits_per_weight ==
            IfTruthy(PyGet(metadata, "bitsPerWeight", None),
                     Round2OrNone(PyGet(metadata, "bitsPerWeight", Num(0))), None)
        f_model_name == PyGet(metadata, "name", None)
        f_flash_attention == PyGet(estimate, "flashAttention", Bool(FALSE))
        f_fully_offloadable ==
            PyGet(Subscript0(PyGet(estimate, "items", Arr(<<EmptyDict>>))),
                  "fullOffloaded", Bool(FALSE))
        raised == FirstRaise(<<metadata, architecture, estimate, vram_gb, ram_gb,
                               params_str, f_architecture, f_quantization,
                               f_parameters, f_context_length, f_embedding_length,
                               f_file_size_bytes, f_file_size_gb, f_bits_per_weight,
                               f_model_name, f_flash_attention,
                               f_fully_offloadable>>, 1)
    IN  IF IsRaise(raised) THEN raised
        ELSE Obj([architecture |-> f_architecture,
                  quantization |-> f_quantization,
                  parameters |-> f_parameters,
                  parameters_str |-> params_str,
                  context_length |-> f_context_length,
                  embedding_length |-> f_embedding_length,
                  file_size_bytes |-> f_file_size_bytes,
                  file_size_gb |-> f_file_size_gb,
                  bits_per_weight |-> f_bits_per_weight,
                  vram_required_gb |-> vram_gb,
                  ram_required_gb |-> ram_gb,
                  model_name |-> f_model_name,
                  flash_attention |-> f_flash_attention,
                  fully_offloadable |-> f_fully_offloadable])

-----------------------------------------------------------------------------
(* The JSON documents the parser tool can print, as json.loads returns them *)

Missing == [t |-> "missing"]        \* the key is not in the dict

\* the dict of the keys of rec that are not Missing
DictOf(rec) == Obj([k \in {x \in DOMAIN rec : rec[x].t # "missing"} |-> rec[k]])

S_llama == <<"l", "l", "a", "m", "a">>
S_qwen2 == <<"q", "w", "e", "n", "2">>
S_Q4_K_M == <<"Q", "4", "_", "K", "_", "M">>
S_name == <<"L", "l", "a", "m", "a", " ", "2">>

\* byte counts: none, zero, below and above half a hundredth of a GiB
\* (5368709.12 bytes), the tie 0.125 GiB, 1 GiB, 1.5 GiB and the largest
ByteChoices ==
    <<Missing, None, Num(0), Num(1), Num(5368709), Num(5368710),
      Num(134217728), Num(1073741824), Num(1610612736), Num(2147483647)>>

ParameterChoices ==
    <<Missing, None, Num(0), Num(999), Num(999999), Num(1000000), Num(2500000),
      Num(500000000), Num(999999999), Num(1000000000), Num(1250000000),
      Num(1350000000), Num(1738415616)>>

\* bits per weight: none, zero, and the doubles 1/1024, 5/1024, 6/1024,
\* 128/1024 (the tie 0.125) and 4966/1024 (4.85 to two decimals)
BitsChoices ==
    <<Missing, None, Num(0), Flt(0, 1024), Flt(1, 1024), Flt(5, 1024),
      Flt(6, 1024), Flt(128, 1024), Flt(4966, 1024), Num(4)>>

MetadataBlock(parameters, fileSize, bitsPerWeight, architecture) ==
    DictOf([architecture |-> architecture,
            fileTypeDetail |-> Str(S_Q4_K_M),
            parameters |-> parameters,
            fileSize |-> fileSize,
            bitsPerWeight |-> bitsPerWeight,
            name |-> Str(S_name)])

ArchitectureBlock ==
    DictOf([architecture |-> Str(S_qwen2),
            maximumContextLength |-> Num(4096),
            embeddingLength |-> Num(5120)])

NonumaDict(bytes) == DictOf([nonuma |-> bytes])

\* the shapes of the first entry of estimate.items[0].vrams
VramsChoices(bytes) ==
    <<Missing, None, EmptyList, Arr(<<EmptyDict>>), Arr(<<NonumaDict(bytes)>>),
      Arr(<<NonumaDict(bytes), NonumaDict(Num(1073741824))>>)>>

\* the shapes of estimate.items[0].ram
RamChoices(bytes) == <<Missing, None, EmptyDict, NonumaDict(bytes)>>

EstimateItem(vrams, ram) ==
    DictOf([vrams |-> vrams, ram |-> ram, fullOffloaded |-> Bool(TRUE)])

\* the shapes of estimate.items
ItemsChoices(item) == <<Missing, None, EmptyList, Arr(<<None>>), Arr(<<item>>)>>

EstimateBlock(items) == DictOf([items |-> items, flashAttention |-> Bool(TRUE)])

FullItem == EstimateItem(Arr(<<NonumaDict(Num(1610612736))>>), NonumaDict(Num(1073741824)))
FullMetadata == MetadataBlock(Num(1738415616), Num(1610612736), Flt(4966, 1024), Str(S_llama))

RawDoc(metadata, architecture, estimate) ==
    DictOf([metadata |-> metadata, architecture |-> architecture, estimate |-> estimate])

\* a block is absent, null, an empty dict, or filled
BlockChoices(block) == <<Missing, None, EmptyDict, block>>

-----------------------------------------------------------------------------
(* gguf_parser: the single attempt and the retry loop *)

PARSER_TIMEOUT == 60
MAX_RETRIES == 3
RETRY_DELAY == 2

S_parser_exe == <<"g", "g", "u", "f", "-", "p", "a", "r", "s", "e", "r", ".", "e", "x", "e">>
S_json_flag == <<"-", "-", "j", "s", "o", "n">>
S_hf_repo_flag == <<"-", "-", "h", "f", "-", "r", "e", "p", "o">>
S_hf_file_flag == <<"-", "-", "h", "f", "-", "f", "i", "l", "e">>
S_ms_repo_flag == <<"-", "-", "m", "s", "-", "r", "e", "p", "o">>
S_ms_file_flag == <<"-", "-", "m", "s", "-", "f", "i", "l", "e">>
S_path_flag == <<"-", "-", "p", "a", "t", "h">>
S_404 == <<"4", "0", "4">>
S_error_key == "_error"
S_message_key == "_message"
S_not_found == <<"n", "o", "t", "_", "f", "o", "u", "n", "d">>

Whitespace == {" ", "\n", "\t", "\r"}

RECURSIVE StripLeft(_)
StripLeft(s) ==
    IF Len(s) > 0 /\ s[1] \in Whitespace THEN StripLeft(Tail(s)) ELSE s

RECURSIVE StripRight(_)
StripRight(s) ==
    IF Len(s) > 0 /\ s[Len(s)] \in Whitespace
    THEN StripRight(SubSeq(s, 1, Len(s) - 1))
    ELSE s

\* str.strip()
Strip(s) == StripRight(StripLeft(s))

\* What one run of the tool can do.  kind "exit": the process ended with
\* returncode, stderr and stdout; "timeout": subprocess.run raised
\* TimeoutExpired; "oserror": subprocess.run raised another exception.
\* stdout is a text that json.loads accepts (valid, with the value doc it
\* returns) or rejects.
Exit(returncode, stderr, valid, doc) ==
    [kind |-> "exit", returncode |-> returncode, stderr |-> stderr,
     stdout |-> [valid |-> valid, doc |-> doc]]

E_empty == <<>>
E_404 == <<"H", "T", "T", "P", " ", "4", "0", "4", " ", "N", "o", "t", " ", "F", "o", "u", "n", "d", "\n">>
E_reset == <<" ", "c", "o", "n", "n", "e", "c", "t", "i", "o", "n", " ", "r", "e", "s", "e", "t", "\n">>
E_warning_404 == <<"w", "a", "r", "n", "i", "n", "g", ":", " ", "4", "0", "4", " ", "o", "n", " ", "m", "i", "r", "r", "o", "r">>

DocA == RawDoc(FullMetadata, ArchitectureBlock, EstimateBlock(Arr(<<FullItem>>)))
DocB == RawDoc(MetadataBlock(Num(999), Num(1), Missing, Missing), ArchitectureBlock, Missing)
DocEmptyItems == RawDoc(FullMetadata, ArchitectureBlock, EstimateBlock(EmptyList))
DocNoDict == Arr(<<FullMetadata>>)

ProcChoices ==
    << Exit(0, E_empty, TRUE, DocA),
       Exit(0, E_warning_404, TRUE, DocB),
       Exit(0, E_empty, FALSE, None),
       Exit(0, E_empty, TRUE, DocNoDict),
       Exit(0, E_empty, TRUE, DocEmptyItems),
       Exit(1, E_404, FALSE, None),
       Exit(1, E_reset, FALSE, None),
       Exit(2, E_empty, TRUE, DocA),
       [kind |-> "timeout", returncode |-> 0, stderr |-> E_empty,
        stdout |-> [valid |-> FALSE, doc |-> None]],
       [kind |-> "oserror", returncode |-> 0, stderr |-> E_empty,
        stdout |-> [valid |-> FALSE, doc |-> None]] >>

\* json.loads(result.stdout)
JsonLoads(stdout) == IF stdout.valid THEN stdout.doc ELSE Raise("JSONDecodeError")

\* cmd = [str(PARSER_PATH)] + args + ["--json"]
Cmd(a) == <<S_parser_exe>> \o a \o <<S_json_flag>>

\* {"_error": "not_found", "_message": stderr}
NotFoundDict(stderr) ==
    Obj((S_error_key :> Str(S_not_found)) @@ (S_message_key :> Str(stderr)))

\* a plausible slip: stderr is searched for 404 before the exit code is tested
TryBodyStderrFirst(proc) ==
    CASE proc.kind = "timeout" -> Raise("TimeoutExpired")
      [] proc.kind = "oserror" -> Raise("OSError")
      [] OTHER ->
            LET stderr == Strip(proc.stderr)
            IN  IF Contains(stderr, S_404) THEN NotFoundDict(stderr)
                ELSE IF proc.returncode # 0 THEN None
                ELSE ExtractMetadata(JsonLoads(proc.stdout))

\* the body of the try statement of _run_parser, lines 127-144: the value
\* returned or the exception raised
TryBody(proc) ==
    CASE proc.kind = "timeout" -> Raise("TimeoutExpired")
      [] proc.kind = "oserror" -> Raise("OSError")
      [] OTHER ->
            IF proc.returncode # 0
            THEN LET stderr == Strip(proc.stderr)
                 IN  IF Contains(stderr, S_404) THEN NotFoundDict(stderr) ELSE None
            ELSE ExtractMetadata(JsonLoads(proc.stdout))

\* a plausible slip: no `except Exception` clause, only the two named ones
run_parser_two_handlers(exists, proc) ==
    IF ~exists THEN None
    ELSE LET r == TryBody(proc)
         IN  IF IsRaise(r) /\ r.exc \in {"TimeoutExpired", "JSONDecodeError"}
             THEN None
             ELSE r

\* _run_parser: exists is PARSER_PATH.exists(), proc what the tool does when
\* it is run
\* a plausible slip: the missing executable reported like a missing file
run_parser_missing_not_found(exists, proc) ==
    IF ~exists THEN NotFoundDict(<<>>)
    ELSE LET r == TryBody(proc)
         IN  IF IsRaise(r) THEN None ELSE r

run_parser(exists, proc) ==
    IF ~exists THEN None
    ELSE LET r == TryBody(proc)
         IN  IF IsRaise(r)
             THEN CASE r.exc = "TimeoutExpired" -> None
                    [] r.exc = "JSONDecodeError" -> None
                    [] OTHER -> None
             ELSE r

\* line 94: result is not None and "_error" not in result
IsSuccess(r) == r.t # "null" /\ S_error_key \notin DOMAIN r.v

\* a plausible slip: the not-found result is retried like any other failure
IsNotFoundNever(r) == FALSE

\* line 98: result is not None and result.get("_error") == "not_found"
IsNotFound(r) == r.t # "null" /\ PyGet(r, S_error_key, None) = Str(S_not_found)

\* a plausible slip: the loop sleeps after the last attempt too
SleepsAfterEvery(a, n) == TRUE

\* line 102: attempt < retries - 1
SleepsAfter(a, n) == a < n - 1

\* a plausible slip: the delay is not doubled
BackoffConstant(d) == d

\* line 105: delay *= 2
Backoff(d) == d * 2

\* a plausible slip: range(retries + 1)
InRangeOneMore(a, n) == a <= n

\* line 90: for attempt in range(retries)
InRange(a, n) == a < n

\* a plausible slip: delay is a module global that outlives the call
RunParserWithRetryGlobalDelay(a, n) ==
    /\ cpc = "idle"
    /\ cpc' = "loop"
    /\ args' = a
    /\ retries' = n
    /\ attempt' = 0
    /\ delay' = IF earlier = None THEN RETRY_DELAY ELSE earlier.delay
    /\ result' = None
    /\ ret' = None
    /\ events' = <<>>

\* line 88: the call of _run_parser_with_retry(a, n)
RunParserWithRetry(a, n) ==
    /\ cpc = "idle"
    /\ cpc' = "loop"
    /\ args' = a
    /\ retries' = n
    /\ attempt' = 0
    /\ delay' = RETRY_DELAY
    /\ result' = None
    /\ ret' = None
    /\ events' = <<>>

\* lines 90-102: one iteration of the loop up to its sleep.  o = 0: the
\* executable is missing; o > 0: it is there and the tool does ProcChoices[o].
\* The outcomes are drawn from the set O.
LoopIterationOver(O) ==
    /\ cpc = "loop"
    /\ InRange(attempt, retries)
    /\ \E o \in O :
        LET r == run_parser(o # 0, ProcChoices[IF o = 0 THEN 1 ELSE o])
        IN  /\ result' = r
            /\ events' = Append(events,
                    [e |-> "run_parser", n |-> attempt + 1, o |-> o,
                     cmd |-> IF o = 0 THEN <<>> ELSE Cmd(args),
                     res |-> r])
            /\ IF IsRaise(r)
               THEN cpc' = "done" /\ ret' = r /\ UNCHANGED attempt
               ELSE IF IsSuccess(r)
               THEN cpc' = "done" /\ ret' = r /\ UNCHANGED attempt
               ELSE IF IsNotFound(r)
               THEN cpc' = "done" /\ ret' = None /\ UNCHANGED attempt
               ELSE IF SleepsAfter(attempt, retries)
               THEN cpc' = "sleep" /\ UNCHANGED <<ret, attempt>>
               ELSE cpc' = "loop" /\ attempt' = attempt + 1 /\ UNCHANGED ret
    /\ UNCHANGED <<args, retries, delay>>

LoopIteration == LoopIterationOver(0..Len(ProcChoices))

\* lines 103-105: time.sleep(delay); delay *= 2, and the next iteration
Sleep ==
    /\ cpc = "sleep"
    /\ events' = Append(events, [e |-> "sleep", d |-> delay])
    /\ delay' = Backoff(delay)
    /\ attempt' = attempt + 1
    /\ cpc' = "loop"
    /\ UNCHANGED <<args, retries, result, ret>>

\* line 107: the loop is over, return None
LoopExit ==
    /\ cpc = "loop"
    /\ ~InRange(attempt, retries)
    /\ cpc' = "done"
    /\ ret' = None
    /\ UNCHANGED <<args, retries, attempt, delay, result, events>>

\* a step of a call in progress
RetryStep == LoopIteration \/ Sleep \/ LoopExit

RetryStepOver(O) == LoopIterationOver(O) \/ Sleep \/ LoopExit

\* parse_gguf_from_hf(repo, filename, retries)
parse_gguf_from_hf(repo, filename, n) ==
    RunParserWithRetry(<<S_hf_repo_flag, repo, S_hf_file_flag, filename>>, n)

\* parse_gguf_from_ms(repo, filename, retries)
parse_gguf_from_ms(repo, filename, n) ==
    RunParserWithRetry(<<S_ms_repo_flag, repo, S_ms_file_flag, filename>>, n)

\* a plausible slip: retries left out, so that the default MAX_RETRIES applies
parse_gguf_local_default(filepath) ==
    RunParserWithRetry(<<S_path_flag, filepath>>, MAX_RETRIES)

\* parse_gguf_local(filepath)
parse_gguf_local(filepath) ==
    RunParserWithRetry(<<S_path_flag, filepath>>, 1)

\* the caller has the returned value; the locals of the call are gone
ClientReset ==
    /\ cpc' = "idle"
    /\ args' = <<>>
    /\ retries' = 0
    /\ attempt' = 0
    /\ delay' = 0
    /\ result' = None
    /\ ret' = None
    /\ events' = <<>>

\* no call in progress
ClientIdle ==
    /\ cpc = "idle"
    /\ args = <<>>
    /\ retries = 0
    /\ attempt = 0
    /\ delay = 0
    /\ result = None
    /\ ret = None
    /\ events = <<>>

-----------------------------------------------------------------------------
(* model_scraper: strings and the helpers of the record construction *)

S_hf_url == <<"h", "t", "t", "p", "s", ":", "/", "/", "h", "u", "g", "g", "i", "n", "g", "f", "a", "c", "e", ".", "c", "o", "/">>
S_ms_url == <<"h", "t", "t", "p", "s", ":", "/", "/", "m", "o", "d", "e", "l", "s", "c", "o", "p", "e", ".", "c", "n", "/", "m", "o", "d", "e", "l", "s", "/">>
S_gguf_ext == <<".", "g", "g", "u", "f">>
S_gguf == <<"g", "g", "u", "f">>
S_now == <<"2", "0", "2", "6", "-", "0", "1", "-", "0", "1", "T", "0", "0", ":", "0", "0", ":", "0", "0", ".", "0", "0", "0", "0", "0", "0">>
S_huggingface == "huggingface"
S_modelscope == "modelscope"

vram_limit_gb == 24

\* s.replace(old, new)
RECURSIVE Replace(_, _, _)
Replace(s, old, new) ==
    IF Len(s) < Len(old) THEN s
    ELSE IF SubSeq(s, 1, Len(old)) = old
    THEN new \o Replace(SubSeq(s, Len(old) + 1, Len(s)), old, new)
    ELSE <<s[1]>> \o Replace(Tail(s), old, new)

\* s.rstrip(chars)
RECURSIVE RStrip(_, _)
RStrip(s, chars) ==
    IF Len(s) > 0 /\ s[Len(s)] \in chars
    THEN RStrip(SubSeq(s, 1, Len(s) - 1), chars)
    ELSE s

\* s.split('/')
RECURSIVE SplitSlash(_)
SplitSlash(s) ==
    IF \E i \in 1..Len(s) : s[i] = "/"
    THEN LET i == CHOOSE j \in 1..Len(s) : s[j] = "/" /\ \A h \in 1..(j - 1) : s[h] # "/"
         IN  <<SubSeq(s, 1, i - 1)>> \o SplitSlash(SubSeq(s, i + 1, Len(s)))
    ELSE <<s>>

\* s[:n]
Prefix(s, n) == SubSeq(s, 1, IF Len(s) < n THEN Len(s) ELSE n)

\* any(x in s for x in words)
AnyIn(words, s) == \E i \in 1..Len(words) : Contains(s, words[i])

\* x in tags, for a list of strings
InList(x, tags) == \E i \in 1..Len(tags.v) : tags.v[i] = Str(x)

\* json.dumps of a list of strings without characters to escape
RECURSIVE JsonItems(_, _)
JsonItems(items, i) ==
    IF i > Len(items) THEN <<>>
    ELSE (IF i > 1 THEN <<",", " ">> ELSE <<>>)
           \o <<"\"">> \o items[i].v \o <<"\"">> \o JsonItems(items, i + 1)

JsonDumps(items) == <<"[">> \o JsonItems(items, 1) \o <<"]">>

size_indicators ==
    << [k |-> <<"0", ".", "5", "b">>, size |-> 1],
       [k |-> <<"1", "b">>, size |-> 2],
       [k |-> <<"1", ".", "5", "b">>, size |-> 3],
       [k |-> <<"2", "b">>, size |-> 4],
       [k |-> <<"3", "b">>, size |-> 6],
       [k |-> <<"4", "b">>, size |-> 8],
       [k |-> <<"7", "b">>, size |-> 14],
       [k |-> <<"8", "b">>, size |-> 16],
       [k |-> <<"1", "3", "b">>, size |-> 26],
       [k |-> <<"1", "4", "b">>, size |-> 28],
       [k |-> <<"3", "2", "b">>, size |-> 64],
       [k |-> <<"3", "4", "b">>, size |-> 68],
       [k |-> <<"7", "0", "b">>, size |-> 140],
       [k |-> <<"7", "2", "b">>, size |-> 144] >>

\* the sum of the sizes of the siblings that have one (below 2^31 here)
RECURSIVE TotalBytes(_, _)
TotalBytes(siblings, i) ==
    IF i > Len(siblings) THEN 0
    ELSE LET size == PyGet(siblings[i], "size", Num(0))
         IN  (IF Truthy(size) THEN size.v ELSE 0) + TotalBytes(siblings, i + 1)

\* the first indicator, in the order of the dict, that is in the name
RECURSIVE FirstIndicator(_, _)
FirstIndicator(name, i) ==
    IF i > Len(size_indicators) THEN None
    ELSE IF Contains(name, size_indicators[i].k) THEN Num(size_indicators[i].size)
    ELSE FirstIndicator(name, i + 1)

\* estimate_model_size(model_data)
estimate_model_size(model_data) ==
    LET siblings == PyGet(model_data, "siblings", EmptyList)
        total_bytes == TotalBytes(siblings.v, 1)
        name == Lower(PyGet(model_data, "id", Str(<<>>)).v)
    IN  IF total_bytes > 0 THEN Flt(GbTenths(total_bytes), 10)
        ELSE FirstIndicator(name, 1)

S_image == <<"i", "m", "a", "g", "e">>
S_coding == <<"c", "o", "d", "i", "n", "g">>
S_multimodal == <<"m", "u", "l", "t", "i", "m", "o", "d", "a", "l">>
S_text == <<"t", "e", "x", "t">>

\* any(t in tags for t in words)
AnyTag(words, tags) == \E i \in 1..Len(words) : InList(words[i], tags)

\* detect_category(model_data)
detect_category(model_data) ==
    LET T_image ==
            << <<"d", "i", "f", "f", "u", "s", "e", "r", "s">>,
            <<"s", "t", "a", "b", "l", "e", "-", "d", "i", "f", "f", "u", "s", "i", "o", "n">>,
            <<"i", "m", "a", "g", "e", "-", "g", "e", "n", "e", "r", "a", "t", "i", "o", "n">>,
            <<"t", "e", "x", "t", "-", "t", "o", "-", "i", "m", "a", "g", "e">> >>
        T_coding ==
            << <<"c", "o", "d", "e">>,
            <<"c", "o", "d", "i", "n", "g">>,
            <<"c", "o", "d", "e", "r">>,
            <<"c", "o", "d", "e", "-", "g", "e", "n", "e", "r", "a", "t", "i", "o", "n">> >>
        T_multimodal ==
            << <<"v", "i", "s", "i", "o", "n">>,
            <<"m", "u", "l", "t", "i", "m", "o", "d", "a", "l">>,
            <<"i", "m", "a", "g", "e", "-", "t", "e", "x", "t", "-", "t", "o", "-", "t", "e", "x", "t">>,
            <<"v", "i", "s", "u", "a", "l", "-", "q", "u", "e", "s", "t", "i", "o", "n", "-", "a", "n", "s", "w", "e", "r", "i", "n", "g">> >>
        S_text_to_image ==
            <<"t", "e", "x", "t", "-", "t", "o", "-", "i", "m", "a", "g", "e">>
        S_image_to_image ==
            <<"i", "m", "a", "g", "e", "-", "t", "o", "-", "i", "m", "a", "g", "e">>
        S_code ==
            <<"c", "o", "d", "e">>
        S_vision ==
            <<"v", "i", "s", "i", "o", "n">>
        tags == PyGet(model_data, "tags", EmptyList)
        pipeline == PyGet(model_data, "pipeline_tag", Str(<<>>)).v
        id == Lower(PyGet(model_data, "id", Str(<<>>)).v)
    IN  IF AnyTag(T_image, tags) THEN Str(S_image)
        ELSE IF Contains(pipeline, S_text_to_image) \/ Contains(pipeline, S_image_to_image)
        THEN Str(S_image)
        ELSE IF AnyTag(T_coding, tags) THEN Str(S_coding)
        ELSE IF Contains(id, S_code) THEN Str(S_coding)
        ELSE IF AnyTag(T_multimodal, tags) THEN Str(S_multimodal)
        ELSE IF Contains(id, S_vision) THEN Str(S_multimodal)
        ELSE Str(S_text)

\* is_chinese_model(model_data)
is_chinese_model(model_data) ==
    LET chinese_indicators ==
            << <<"q", "w", "e", "n">>,
            <<"b", "a", "i", "c", "h", "u", "a", "n">>,
            <<"c", "h", "a", "t", "g", "l", "m">>,
            <<"y", "i", "-">>,
            <<"d", "e", "e", "p", "s", "e", "e", "k">>,
            <<"c", "h", "i", "n", "e", "s", "e">>,
            <<"m", "i", "n", "i", "c", "p", "m">>,
            <<"i", "n", "t", "e", "r", "n", "l", "m">>,
            <<"m", "o", "s", "s">>,
            <<"t", "i", "g", "e", "r", "b", "o", "t">>,
            <<"a", "q", "u", "i", "l", "a">>,
            <<"s", "k", "y", "w", "o", "r", "k">>,
            <<"x", "v", "e", "r", "s", "e">>,
            <<"o", "r", "i", "o", "n">> >>
        S_zh ==
            <<"z", "h">>
        S_chinese ==
            <<"c", "h", "i", "n", "e", "s", "e">>
        model_id == Lower(PyGet(model_data, "id", Str(<<>>)).v)
        tags == PyGet(model_data, "tags", EmptyList)
    IN  IF AnyIn(chinese_indicators, model_id) THEN Bool(TRUE)
        ELSE IF InList(S_zh, tags) \/ InList(S_chinese, tags) THEN Bool(TRUE)
        ELSE Bool(FALSE)

\* size_gb and size_gb > config.get('vram_limit_gb', 24) * 2
TooLarge(size_gb) ==
    /\ Truthy(size_gb)
    /\ IF size_gb.t = "float" THEN size_gb.n > vram_limit_gb * 2 * size_gb.d
       ELSE size_gb.v > vram_limit_gb * 2

\* the dict built at lines 386-398, 439-451 and 494-506
HfRecord(model) ==
    LET model_id == PyGet(model, "id", Str(<<>>)).v
        parts == SplitSlash(model_id)
        description == PyGet(model, "description", None)
        lastModified == PyGet(model, "lastModified", Str(S_now)).v
    IN  Obj([name |-> Str(parts[Len(parts)]),
             source |-> Str(S_huggingface),
             url |-> Str(S_hf_url \o model_id),
             description |-> IF Truthy(description)
                             THEN Str(Prefix(PyGet(model, "description", Str(<<>>)).v, 500))
                             ELSE None,
             category |-> detect_category(model),
             size_gb |-> estimate_model_size(model),
             is_chinese |-> is_chinese_model(model),
             release_date |-> Str(Replace(Prefix(lastModified, 19), <<"T">>, <<" ">>)),
             downloads |-> PyGet(model, "downloads", Num(0)),
             likes |-> PyGet(model, "likes", Num(0)),
             tags |-> Str(JsonDumps(SubSeq(PyGet(model, "tags", EmptyList).v, 1,
                            IF Len(PyGet(model, "tags", EmptyList).v) < 10
                            THEN Len(PyGet(model, "tags", EmptyList).v) ELSE 10)))])

\* datetime.fromtimestamp(ts).strftime(...) and datetime.now().strftime(...):
\* the text is kept as the time it formats, 0 standing for the clock
Strftime(ts) == [t |-> "strftime", ts |-> ts]

\* lines 547-593: org, name and the dict of a ModelScope entry
MsOrg(model_id) ==
    LET parts == SplitSlash(model_id)
    IN  IF Len(parts) >= 2 THEN parts[1] ELSE <<>>

MsName(model_id) ==
    LET parts == SplitSlash(model_id)
    IN  IF Len(parts) >= 2 THEN parts[Len(parts)] ELSE model_id

\* line 579: 'gguf' in name_lower
is_gguf_model_flag(model) ==
    Contains(Lower(MsName(PyGet(model, "id", Str(<<>>)).v)), S_gguf)

MsRecord(model) ==
    LET MS_coding ==
            << <<"c", "o", "d", "e", "r">>,
            <<"c", "o", "d", "e">>,
            <<"s", "t", "a", "r", "c", "o", "d", "e", "r">> >>
        MS_multimodal ==
            << <<"v", "i", "s", "i", "o", "n">>,
            <<"v", "l">>,
            <<"i", "m", "a", "g", "e">>,
            <<"d", "i", "f", "f", "u", "s", "i", "o", "n">> >>
        MS_chinese_names ==
            << <<"q", "w", "e", "n">>,
            <<"d", "e", "e", "p", "s", "e", "e", "k">>,
            <<"y", "i", "-">>,
            <<"g", "l", "m">>,
            <<"b", "a", "i", "c", "h", "u", "a", "n">>,
            <<"i", "n", "t", "e", "r", "n", "l", "m">>,
            <<"m", "i", "n", "i", "c", "p", "m">>,
            <<"c", "h", "i", "n", "e", "s", "e">>,
            <<"l", "l", "a", "m", "a", "-", "c", "h", "i", "n", "e", "s", "e">> >>
        MS_chinese_orgs ==
            << <<"q", "w", "e", "n">>,
            <<"d", "e", "e", "p", "s", "e", "e", "k">>,
            <<"t", "h", "u", "d", "m">>,
            <<"b", "a", "i", "c", "h", "u", "a", "n">> >>
        S_ms_description ==
            <<"M", "o", "d", "e", "l", "S", "c", "o", "p", "e", " ", "m", "o", "d", "e", "l", ":", " ">>
        model_id == PyGet(model, "id", Str(<<>>)).v
        org == MsOrg(model_id)
        name == MsName(model_id)
        created_ts == PyGet(model, "created", Num(0))
        name_lower == Lower(name)
    IN  Obj([name |-> Str(name),
             source |-> Str(S_modelscope),
             url |-> Str(S_ms_url \o model_id),
             description |-> Str(S_ms_description \o model_id),
             category |-> IF AnyIn(MS_coding, name_lower) THEN Str(S_coding)
                          ELSE IF AnyIn(MS_multimodal, name_lower) THEN Str(S_multimodal)
                          ELSE Str(S_text),
             size_gb |-> None,
             is_chinese |-> Bool(AnyIn(MS_chinese_names, name_lower)
                                   \/ AnyIn(MS_chinese_orgs, Lower(org))),
             release_date |-> IF Truthy(created_ts) THEN Strftime(created_ts.v)
                              ELSE Strftime(0),
             downloads |-> Num(0),
             likes |-> Num(0),
             tags |-> Str(JsonDumps(IF Len(org) > 0 THEN <<Str(org)>> ELSE <<>>))])

-----------------------------------------------------------------------------
(* model_scraper.get_gguf_files_from_hf, get_gguf_files_from_ms *)

\* the list comprehension of lines 244-247 and 266-269 from position i on:
\* the names kept, or the exception raised
RECURSIVE GgufNames(_, _, _)
GgufNames(files, key, i) ==
    IF i > Len(files) THEN Arr(<<>>)
    ELSE LET name == PyGet(files[i], key, Str(<<>>))
             rest == GgufNames(files, key, i + 1)
         IN  IF IsRaise(name) THEN name
             ELSE IF name.t # "str" THEN Raise("AttributeError")
             ELSE IF IsRaise(rest) THEN rest
             ELSE IF EndsWith(Lower(name.v), S_gguf_ext)
             THEN Arr(<<name.v>> \o rest.v)
             ELSE rest

\* what the hub answers to the listing request: "exception" when
\* requests.get raises, else the status code and the JSON body
ListingException == [kind |-> "exception", status_code |-> 0, json |-> None]
ListingAnswer(status_code, json) ==
    [kind |-> "response", status_code |-> status_code, json |-> json]

\* the files of the JSON body: data.get('siblings', []) on Hugging Face,
\* data.get('Data', {}).get('Files', []) on ModelScope
ListedFiles(src, body) ==
    IF src = S_huggingface THEN PyGet(body, "siblings", EmptyList)
    ELSE PyGet(PyGet(body, "Data", EmptyDict), "Files", EmptyList)

NameKey(src) == IF src = S_huggingface THEN "rfilename" ELSE "Name"

\* a plausible slip: the lower-cased names are the ones kept
get_gguf_files_lowered(src, response) ==
    IF response.kind = "exception" THEN <<>>
    ELSE IF response.status_code # 200 THEN <<>>
    ELSE LET files == ListedFiles(src, response.json)
             names == IF IsRaise(files) THEN files
                      ELSE IF files.t # "arr" THEN Raise("TypeError")
                      ELSE GgufNames(files.v, NameKey(src), 1)
         IN  IF IsRaise(names) THEN <<>>
             ELSE [i \in 1..Len(names.v) |-> Lower(names.v[i])]

\* get_gguf_files_from_hf(repo_id) and get_gguf_files_from_ms(repo_id), for
\* the response of the hub
get_gguf_files(src, response) ==
    IF response.kind = "exception" THEN <<>>
    ELSE IF response.status_code # 200 THEN <<>>
    ELSE LET files == ListedFiles(src, response.json)
             names == IF IsRaise(files) THEN files
                      ELSE IF files.t # "arr" THEN Raise("TypeError")
                      ELSE GgufNames(files.v, NameKey(src), 1)
         IN  IF IsRaise(names) THEN <<>> ELSE names.v

-----------------------------------------------------------------------------
(* model_scraper.pick_representative_gguf_file *)

preferences ==
    << <<"q", "4", "_", "k", "_", "m">>,
       <<"q", "4", "_", "k", "_", "s">>,
       <<"q", "5", "_", "k", "_", "m">>,
       <<"q", "5", "_", "k", "_", "s">>,
       <<"q", "4", "_", "0">>,
       <<"q", "5", "_", "0">> >>

\* the inner loop `for f in gguf_files: if pref in f.lower(): return f`,
\* from position i on: the index of the file returned, 0 when the loop ends
RECURSIVE ScanFiles(_, _, _)
ScanFiles(pref, gguf_files, i) ==
    IF i > Len(gguf_files) THEN 0
    ELSE IF Contains(Lower(gguf_files[i]), pref) THEN i
    ELSE ScanFiles(pref, gguf_files, i + 1)

\* the outer loop `for pref in preferences`, from preference p on, and the
\* fallback `return gguf_files[0]`
RECURSIVE ScanPreferences(_, _)
ScanPreferences(gguf_files, p) ==
    IF p > Len(preferences) THEN gguf_files[1]
    ELSE LET i == ScanFiles(preferences[p], gguf_files, 1)
         IN  IF i # 0 THEN gguf_files[i]
             ELSE ScanPreferences(gguf_files, p + 1)

\* a plausible slip: the loops nested the other way round (first file that
\* matches any preference)
RECURSIVE FirstFileWithAnyPreference(_, _)
FirstFileWithAnyPreference(gguf_files, i) ==
    IF i > Len(gguf_files) THEN gguf_files[1]
    ELSE IF \E p \in 1..Len(preferences) :
                Contains(Lower(gguf_files[i]), preferences[p])
         THEN gguf_files[i]
         ELSE FirstFileWithAnyPreference(gguf_files, i + 1)

pick_files_outer(gguf_files) ==
    IF gguf_files = <<>> THEN None
    ELSE Str(FirstFileWithAnyPreference(gguf_files, 1))

\* a plausible slip: the fallback takes the last file, gguf_files[-1]
pick_fallback_last(gguf_files) ==
    IF gguf_files = <<>> THEN None
    ELSE IF \E i \in 1..Len(gguf_files), p \in 1..Len(preferences) :
                Contains(Lower(gguf_files[i]), preferences[p])
         THEN Str(ScanPreferences(gguf_files, 1))
         ELSE Str(gguf_files[Len(gguf_files)])

\* a plausible slip: no test of the empty list, so that gguf_files[0] raises
pick_unguarded(gguf_files) ==
    IF gguf_files = <<>> THEN Raise("IndexError")
    ELSE Str(ScanPreferences(gguf_files, 1))

pick_representative_gguf_file(gguf_files) ==
    IF gguf_files = <<>> THEN None
    ELSE Str(ScanPreferences(gguf_files, 1))

-----------------------------------------------------------------------------
(* File names *)

F_Q4_0 == <<"m", ".", "Q", "4", "_", "0", ".", "g", "g", "u", "f">>
F_Q5_K_M == <<"m", ".", "Q", "5", "_", "K", "_", "M", ".", "g", "g", "u", "f">>
F_Q4_K_M == <<"m", ".", "Q", "4", "_", "K", "_", "M", ".", "g", "g", "u", "f">>
F_a_Q4_K_M == <<"a", ".", "Q", "4", "_", "K", "_", "M", ".", "g", "g", "u", "f">>
F_q4_k_s == <<"m", ".", "q", "4", "_", "k", "_", "s", ".", "g", "g", "u", "f">>
F_Q5_K_S_upper == <<"m", ".", "Q", "5", "_", "K", "_", "S", ".", "G", "G", "U", "F">>
F_Q5_0 == <<"m", ".", "Q", "5", "_", "0", ".", "g", "g", "u", "f">>
F_f16 == <<"m", ".", "f", "1", "6", ".", "g", "g", "u", "f">>
F_Q8_0 == <<"M", ".", "Q", "8", "_", "0", ".", "g", "g", "u", "f">>
F_two_tiers == <<"q", "4", "_", "0", ".", "Q", "4", "_", "K", "_", "M", ".", "g", "g", "u", "f">>

FileNames ==
    {F_Q4_0, F_Q5_K_M, F_Q4_K_M, F_a_Q4_K_M, F_q4_k_s, F_Q5_K_S_upper, F_Q5_0,
     F_f16, F_Q8_0, F_two_tiers}

MaxFiles == 3

SeqsUpTo(S, n) == UNION {[1..k -> S] : k \in 0..n}

-----------------------------------------------------------------------------
(* model_scraper.enrich_model_with_gguf_metadata *)

F_readme == <<"R", "E", "A", "D", "M", "E", ".", "m", "d">>
F_gguf_part == <<"m", ".", "Q", "4", "_", "0", ".", "g", "g", "u", "f", ".", "p", "a", "r", "t">>

\* the JSON body of a listing of the files names: {"siblings": [{"rfilename":
\* ...}]} on Hugging Face, {"Data": {"Files": [{"Name": ...}]}} on ModelScope
ListingBody(src, names) ==
    IF src = S_huggingface
    THEN Obj([siblings |-> Arr([i \in 1..Len(names) |-> Obj([rfilename |-> names[i]])])])
    ELSE Obj([Data |-> Obj([Files |->
                Arr([i \in 1..Len(names) |-> Obj([Name |-> names[i]])])])])

\* what a hub answers to the listing request of a repository
ListingChoices(src) ==
    << ListingAnswer(200, ListingBody(src,
            <<Str(F_readme), Str(F_Q4_0), Str(F_Q5_K_M), Str(F_Q4_K_M)>>)),
       ListingAnswer(200, ListingBody(src, <<Str(F_Q5_K_S_upper), Str(F_readme)>>)),
       ListingAnswer(200, ListingBody(src, <<Str(F_f16), Str(F_gguf_part)>>)),
       ListingAnswer(200, ListingBody(src, <<Str(F_readme), Str(F_gguf_part)>>)),
       ListingAnswer(200, ListingBody(src, <<>>)),
       ListingAnswer(200, EmptyDict),
       ListingAnswer(200, ListingBody(src, <<None, Str(F_Q4_K_M)>>)),
       ListingAnswer(404, EmptyDict),
       ListingException >>

\* no listing was requested
ListingNone == [kind |-> "none", status_code |-> 0, json |-> None]

\* d.update(e)
Update(d, e) ==
    [k \in DOMAIN d \cup DOMAIN e |-> IF k \in DOMAIN e THEN e[k] ELSE d[k]]

\* a plausible slip: the fields copied from `metadata or {}` in both cases
EnrichedFromEither(md, meta, file) ==
    LET m == IF Truthy(meta) THEN meta ELSE EmptyDict
    IN  Obj(Update(md.v,
            [is_gguf |-> Bool(TRUE),
             quantization |-> PyGet(m, "quantization", None),
             gguf_architecture |-> PyGet(m, "architecture", None),
             context_length |-> PyGet(m, "context_length", None),
             parameter_count |-> PyGet(m, "parameters", None),
             vram_required_gb |-> PyGet(m, "vram_required_gb", None),
             bits_per_weight |-> PyGet(m, "bits_per_weight", None),
             gguf_file |-> file]))

\* a plausible slip: the count read under the name of the column
EnrichedWrongKey(md, meta, file) ==
    IF Truthy(meta)
    THEN Obj(Update(md.v,
            [is_gguf |-> Bool(TRUE),
             quantization |-> PyGet(meta, "quantization", None),
             gguf_architecture |-> PyGet(meta, "architecture", None),
             context_length |-> PyGet(meta, "context_length", None),
             parameter_count |-> PyGet(meta, "parameter_count", None),
             vram_required_gb |-> PyGet(meta, "vram_required_gb", None),
             bits_per_weight |-> PyGet(meta, "bits_per_weight", None),
             gguf_file |-> file]))
    ELSE Obj(Update(md.v, [is_gguf |-> Bool(TRUE), gguf_file |-> file]))

\* lines 331-343: model_dict after the branch on metadata
Enriched(md, meta, file) ==
    IF Truthy(meta)
    THEN Obj(Update(md.v,
            [is_gguf |-> Bool(TRUE),
             quantization |-> PyGet(meta, "quantization", None),
             gguf_architecture |-> PyGet(meta, "architecture", None),
             context_length |-> PyGet(meta, "context_length", None),
             parameter_count |-> PyGet(meta, "parameters", None),
             vram_required_gb |-> PyGet(meta, "vram_required_gb", None),
             bits_per_weight |-> PyGet(meta, "bits_per_weight", None),
             gguf_file |-> file]))
    ELSE Obj(Update(md.v, [is_gguf |-> Bool(TRUE), gguf_file |-> file]))

\* no call in progress
EnrichIdle ==
    /\ epc = "idle"
    /\ source = ""
    /\ given = None
    /\ model_dict = None
    /\ answer = ListingNone
    /\ repo_id = <<>>
    /\ found_files = <<>>
    /\ gguf_file = None
    /\ gguf_metadata = None

\* lines 306-329: the call enrich_model_with_gguf_metadata(md, src) up to
\* its return or to its call of parse_fn.  The hub's answer to the listing
\* request is ListingChoices(src)[a] for an a in A.
EnrichBegin(md, src, A) ==
    /\ epc = "idle"
    /\ source' = src
    /\ given' = md
    /\ model_dict' = md
    /\ gguf_metadata' = None
    /\ IF ~available
       THEN /\ epc' = "done"
            /\ answer' = ListingNone
            /\ repo_id' = <<>>
            /\ found_files' = <<>>
            /\ gguf_file' = None
            /\ UNCHANGED cvars
       ELSE \E a \in A :
            LET url == PyGet(md, "url", Str(<<>>)).v
                id == IF src = S_huggingface
                      THEN Replace(url, S_hf_url, <<>>)
                      ELSE RStrip(Replace(url, S_ms_url, <<>>), {"/"})
                files == get_gguf_files(src, ListingChoices(src)[a])
                file == pick_representative_gguf_file(files)
            IN  /\ answer' = ListingChoices(src)[a]
                /\ repo_id' = id
                /\ found_files' = files
                /\ IF files = <<>>
                   THEN gguf_file' = None /\ epc' = "done" /\ UNCHANGED cvars
                   ELSE /\ gguf_file' = file
                        /\ IF ~Truthy(file)
                           THEN epc' = "done" /\ UNCHANGED cvars
                           ELSE /\ epc' = "parse"
                                /\ IF src = S_huggingface
                                   THEN parse_gguf_from_hf(id, file.v, MAX_RETRIES)
                                   ELSE parse_gguf_from_ms(id, file.v, MAX_RETRIES)
    /\ UNCHANGED available

\* a plausible slip: the merge does not wait for the extraction to return
EnrichEndEarly ==
    /\ epc = "parse"
    /\ gguf_metadata' = ret
    /\ epc' = "done"
    /\ model_dict' = Enriched(model_dict, ret, gguf_file)
    /\ UNCHANGED <<available, source, given, answer, repo_id, found_files, gguf_file>>
    /\ UNCHANGED cvars

\* lines 329-345: parse_fn has returned or raised.  The log of its call
\* stays until the enrichment is returned from.
EnrichEnd ==
    /\ epc = "parse"
    /\ cpc = "done"
    /\ gguf_metadata' = ret
    /\ IF IsRaise(ret)
       THEN epc' = "raised" /\ UNCHANGED model_dict
       ELSE epc' = "done" /\ model_dict' = Enriched(model_dict, ret, gguf_file)
    /\ UNCHANGED <<available, source, given, answer, repo_id, found_files, gguf_file>>
    /\ UNCHANGED cvars

\* the caller has the returned record; the locals of the call are gone
EnrichReset ==
    /\ epc' = "idle"
    /\ source' = ""
    /\ given' = None
    /\ model_dict' = None
    /\ answer' = ListingNone
    /\ repo_id' = <<>>
    /\ found_files' = <<>>
    /\ gguf_file' = None
    /\ gguf_metadata' = None
    /\ ClientReset
    /\ UNCHANGED available

-----------------------------------------------------------------------------
(* model_scraper.scrape_huggingface, scrape_modelscope *)

S_repo == <<"o", "r", "g", "/", "m", "-", "G", "G", "U", "F">>

\* entries of the hubs' model lists
E_gguf == Obj([id |-> Str(S_repo),
               tags |-> Arr(<<Str(S_gguf)>>),
               likes |-> Num(5),
               downloads |-> Num(9),
               lastModified |-> Str(<<"2", "0", "2", "5", "-", "0", "1", "-", "0", "2", "T", "0", "3", ":", "0", "4", ":", "0", "5", ".", "0", "0", "0", "Z">>)])
E_coder == Obj([id |-> Str(<<"Q", "w", "e", "n", "/", "C", "o", "d", "e", "r", "-", "7", "B", "-", "G", "G", "U", "F">>), created |-> Num(1700000000)])
E_large == Obj([id |-> Str(<<"o", "r", "g", "/", "b", "i", "g", "-", "7", "0", "b", "-", "g", "g", "u", "f">>)])
E_plain == Obj([id |-> Str(<<"d", "e", "e", "p", "s", "e", "e", "k", "-", "a", "i", "/", "D", "e", "e", "p", "S", "e", "e", "k", "-", "R", "1">>)])
E_no_id == Obj([likes |-> Num(1)])

\* what Hugging Face answers to a listing query: a JSON list of entries
HfResponses ==
    << ListingException,
       ListingAnswer(500, None),
       ListingAnswer(200, Arr(<<E_gguf, E_large, E_coder>>)),
       ListingAnswer(200, Arr(<<E_no_id, E_coder, None, E_gguf>>)) >>

\* what ModelScope answers: a JSON object with the entries under "data"
MsResponses ==
    << ListingException,
       ListingAnswer(500, None),
       ListingAnswer(200, Obj([data |-> Arr(<<E_coder, E_plain, E_no_id, E_gguf>>)])),
       ListingAnswer(200, Arr(<<>>)) >>

Responses(h) == IF h = S_huggingface THEN HfResponses ELSE MsResponses

\* scrape_modelscope is called with limit=100 (line 829)
ms_limit == 100

\* the list the loop iterates: response.json() on Hugging Face,
\* data.get('data', [])[:limit] on ModelScope
ModelList(h, json) ==
    IF h = S_huggingface THEN json
    ELSE LET model_list == PyGet(json, "data", EmptyList)
         IN  IF IsRaise(model_list) THEN model_list
             ELSE Arr(Prefix(model_list.v, ms_limit))

\* The loop body up to the record (lines 373-398, 426-451, 481-506 and
\* 542-593): what becomes of the entry model in query q of hub h, and
\* seen_urls after it.  "keep": the record is appended as it is; "enrich": it
\* goes through enrich_model_with_gguf_metadata first.
Candidate(h, q, model, seen) ==
    LET model_id == PyGet(model, "id", Str(<<>>))
    IN  IF IsRaise(model_id) THEN [kind |-> "raise", seen |-> seen, rec |-> None]
        ELSE IF ~Truthy(model_id) THEN [kind |-> "skip", seen |-> seen, rec |-> None]
        ELSE IF h = S_huggingface
        THEN LET url == S_hf_url \o model_id.v
             IN  IF url \in seen THEN [kind |-> "skip", seen |-> seen, rec |-> None]
                 ELSE IF TooLarge(estimate_model_size(model))
                 THEN [kind |-> "skip", seen |-> seen \cup {url}, rec |-> None]
                 ELSE [kind |-> IF q = 3 THEN "enrich" ELSE "keep",
                       seen |-> seen \cup {url},
                       rec |-> HfRecord(model)]
        ELSE [kind |-> IF is_gguf_model_flag(model) THEN "enrich" ELSE "keep",
              seen |-> seen,
              rec |-> MsRecord(model)]

\* the hubs' repositories outside the scrape passes: no listing matters
HubsFixed == repo_files = <<>>

\* no pass in progress
ScrapeIdle ==
    /\ spc = "idle"
    /\ hub = ""
    /\ query = 0
    /\ data = <<>>
    /\ pos = 0
    /\ models = <<>>
    /\ seen_urls = {}
    /\ trace = <<>>

\* lines 350-352 and 523-524: the pass of hub h starts
ScrapeBegin(h) ==
    /\ spc = "idle"
    /\ spc' = "request"
    /\ hub' = h
    /\ query' = 1
    /\ data' = <<>>
    /\ pos' = 0
    /\ models' = <<>>
    /\ seen_urls' = {}
    /\ trace' = <<>>

\* three try statements in scrape_huggingface, one in scrape_modelscope
Queries(h) == IF h = S_huggingface THEN 3 ELSE 1

\* control leaves a try statement: on to the next one, or to the return
AfterQuery ==
    IF query < Queries(hub)
    THEN spc' = "request" /\ query' = query + 1
    ELSE spc' = "done" /\ UNCHANGED query

\* the except clause of the current try statement (lines 402, 456, 515, 606)
Except ==
    /\ trace' = Append(trace, [e |-> "except", q |-> query, i |-> pos])
    /\ AfterQuery

\* lines 355-372, 406-425, 460-480 and 526-541: requests.get and the status
\* test; the hub's answer is Responses(hub)[r] for an r in R
Request(R) ==
    /\ spc = "request"
    /\ \E r \in R :
        LET a == Responses(hub)[r]
            list == ModelList(hub, a.json)
        IN  IF a.kind = "exception" THEN Except /\ UNCHANGED <<data, pos>>
            ELSE IF a.status_code # 200
            THEN AfterQuery /\ UNCHANGED <<data, pos, trace>>
            ELSE IF IsRaise(list) THEN Except /\ UNCHANGED <<data, pos>>
            ELSE /\ data' = list.v
                 /\ pos' = 1
                 /\ spc' = "loop"
                 /\ trace' = Append(trace, [e |-> "data", q |-> query, i |-> Len(list.v),
                                            r |-> r])
                 /\ UNCHANGED query
    /\ UNCHANGED <<hub, models, seen_urls, cvars, evars>>

\* one iteration of `for model in data` up to the append, or to the call of
\* the enrichment, whose listing request is answered from A
LoopBody(A) ==
    /\ spc = "loop"
    /\ pos <= Len(data)
    /\ LET c == Candidate(hub, query, data[pos], seen_urls)
           visit == [e |-> "visit", q |-> query, i |-> pos]
       IN  /\ seen_urls' = c.seen
           /\ CASE c.kind = "raise" ->
                    /\ trace' = trace \o <<visit, [e |-> "except", q |-> query, i |-> pos]>>
                    /\ AfterQuery
                    /\ UNCHANGED <<pos, models, cvars, evars>>
                [] c.kind = "skip" ->
                    /\ trace' = Append(trace, visit)
                    /\ pos' = pos + 1
                    /\ UNCHANGED <<spc, query, models, cvars, evars>>
                [] c.kind = "keep" ->
                    /\ trace' = trace \o <<visit, [e |-> "append", q |-> query, i |-> pos,
                                                    url |-> c.rec.v["url"]]>>
                    /\ models' = Append(models, c.rec)
                    /\ pos' = pos + 1
                    /\ UNCHANGED <<spc, query, cvars, evars>>
                [] c.kind = "enrich" ->
                    /\ trace' = trace \o <<visit, [e |-> "enrich", q |-> query, i |-> pos,
                                                    url |-> c.rec.v["url"]]>>
                    /\ EnrichBegin(c.rec, hub, A)
                    /\ spc' = "enrich"
                    /\ UNCHANGED <<pos, query, models>>
    /\ UNCHANGED <<hub, data>>

\* lines 509-510 and 595-599: the enrichment is over; its record is
\* appended, or its exception reaches the except clause of the try statement
Collect ==
    /\ spc = "enrich"
    /\ epc \in {"done", "raised"}
    /\ IF epc = "raised"
       THEN Except /\ UNCHANGED <<pos, models>>
       ELSE /\ models' = Append(models, model_dict)
            /\ pos' = pos + 1
            /\ spc' = "loop"
            /\ trace' = Append(trace, [e |-> "append", q |-> query, i |-> pos,
                                       url |-> PyGet(model_dict, "url", None)])
            /\ UNCHANGED query
    /\ EnrichReset
    /\ UNCHANGED <<hub, data, seen_urls>>

\* the list is exhausted
LoopEnd ==
    /\ spc = "loop"
    /\ pos > Len(data)
    /\ AfterQuery
    /\ UNCHANGED <<hub, data, pos, models, seen_urls, trace, cvars, evars>>

\* the caller has the returned list; the locals of the pass are gone
ScrapeReset ==
    /\ spc' = "idle"
    /\ hub' = ""
    /\ query' = 0
    /\ data' = <<>>
    /\ pos' = 0
    /\ models' = <<>>
    /\ seen_urls' = {}
    /\ trace' = <<>>

-----------------------------------------------------------------------------
(* model_scraper.init_database and save_models_to_db *)

\* datetime.now().isoformat() at time n of the clock
Isoformat(n) == [t |-> "isoformat", at |-> n]

\* lines 62-85: the columns of the table models and their declared types
TextColumns == {"name", "source", "url", "description", "category", "release_date",
                "tags", "created_at", "updated_at", "quantization",
                "gguf_architecture", "gguf_file"}
IntegerColumns == {"id", "is_chinese", "downloads", "likes", "is_gguf",
                   "context_length", "parameter_count"}
RealColumns == {"size_gb", "vram_required_gb", "bits_per_weight"}
NotNullColumns == {"name", "source", "url"}

\* lines 763-773: the columns DO UPDATE SET assigns from the excluded row
UpdatedColumns == {"downloads", "likes", "updated_at", "is_gguf", "quantization",
                   "gguf_architecture", "context_length", "parameter_count",
                   "vram_required_gb", "bits_per_weight", "gguf_file"}

\* CURRENT_TIMESTAMP, the default of created_at, at time n of the clock
CurrentTimestamp(n) == [t |-> "current_timestamp", at |-> n]

\* the sqlite3 module binds None, int, float, str and (as an int) bool; any
\* other parameter raises "Error binding parameter"
Bindable(v) == v.t \in {"null", "num", "float", "str", "strftime", "isoformat", "bool"}

Adapt(v) == IF v.t = "bool" THEN Num(IF v.v THEN 1 ELSE 0) ELSE v

IsDigits(s) == Len(s) > 0 /\ \A i \in 1..Len(s) : \E d \in 1..10 : s[i] = DigitChars[d]

RECURSIVE DigitsValue(_)
DigitsValue(s) ==
    IF Len(s) = 0 THEN 0
    ELSE 10 * DigitsValue(SubSeq(s, 1, Len(s) - 1))
         + (CHOOSE d \in 0..9 : DigitChars[d + 1] = s[Len(s)])

\* the text sqlite renders a float as
FloatText(v) == [t |-> "text", of |-> v]

\* the value a column of the declared type stores for a bound parameter
\* (type affinity): a TEXT column stores numbers as text, an INTEGER column
\* stores integral floats and digit strings as integers, a REAL column
\* stores integers and digit strings as floats; numbers are non-negative
\* and below 2^31 here
Affinity(col, v0) ==
    LET v == Adapt(v0)
    IN  CASE col \in TextColumns /\ v.t = "num" -> Str(DecimalDigits(v.v))
          [] col \in TextColumns /\ v.t = "float" -> FloatText(v)
          [] col \in IntegerColumns /\ v.t = "float" /\ v.n % v.d = 0 -> Num(v.n \div v.d)
          [] col \in IntegerColumns /\ v.t = "str" /\ IsDigits(v.v) -> Num(DigitsValue(v.v))
          [] col \in RealColumns /\ v.t = "num" -> Flt(v.v, 1)
          [] col \in RealColumns /\ v.t = "str" /\ IsDigits(v.v) -> Flt(DigitsValue(v.v), 1)
          [] OTHER -> v

\* lines 775-794: the twenty parameters of the statement; the records of the
\* scrape passes and of add_sample_models carry the eleven subscripted keys
Parameters(record, stamp) ==
    [name |-> record.v["name"],
     source |-> record.v["source"],
     url |-> record.v["url"],
     description |-> record.v["description"],
     category |-> record.v["category"],
     size_gb |-> record.v["size_gb"],
     is_chinese |-> Num(IF Truthy(record.v["is_chinese"]) THEN 1 ELSE 0),
     release_date |-> record.v["release_date"],
     downloads |-> record.v["downloads"],
     likes |-> record.v["likes"],
     tags |-> record.v["tags"],
     updated_at |-> stamp,
     is_gguf |-> Num(IF Truthy(PyGet(record, "is_gguf", None)) THEN 1 ELSE 0),
     quantization |-> PyGet(record, "quantization", None),
     gguf_architecture |-> PyGet(record, "gguf_architecture", None),
     context_length |-> PyGet(record, "context_length", None),
     parameter_count |-> PyGet(record, "parameter_count", None),
     vram_required_gb |-> PyGet(record, "vram_required_gb", None),
     bits_per_weight |-> PyGet(record, "bits_per_weight", None),
     gguf_file |-> PyGet(record, "gguf_file", None)]

\* the statement without its ON CONFLICT clause on a table without the
\* UNIQUE constraint: every bindable row is inserted
ExecuteAlwaysInserts(tbl, sq, n, params) ==
    IF \E k \in DOMAIN params : ~Bindable(params[k])
    THEN [rows |-> tbl, seq |-> sq, error |-> "ProgrammingError"]
    ELSE LET excluded == [k \in DOMAIN params |-> Affinity(k, params[k])]
         IN  [rows |-> tbl \cup
                    {Update(excluded, [id |-> Num(sq + 1),
                                       created_at |-> CurrentTimestamp(n)])},
              seq |-> sq + 1, error |-> "none"]

\* a plausible slip: INSERT OR IGNORE, a row of the same url is left as it is
ExecuteOrIgnore(tbl, sq, n, params) ==
    IF \E k \in DOMAIN params : ~Bindable(params[k])
    THEN [rows |-> tbl, seq |-> sq, error |-> "ProgrammingError"]
    ELSE LET excluded == [k \in DOMAIN params |-> Affinity(k, params[k])]
         IN  IF \E k \in NotNullColumns : excluded[k] = None
             THEN [rows |-> tbl, seq |-> sq, error |-> "IntegrityError"]
             ELSE IF \E r \in tbl : r.url = excluded.url
             THEN [rows |-> tbl, seq |-> sq, error |-> "none"]
             ELSE [rows |-> tbl \cup
                        {Update(excluded, [id |-> Num(sq + 1),
                                           created_at |-> CurrentTimestamp(n)])},
                   seq |-> sq + 1, error |-> "none"]

\* lines 756-774: INSERT ... ON CONFLICT(url) DO UPDATE SET on rows tbl with
\* AUTOINCREMENT counter sq at time n. A parameter that cannot be bound and
\* a NULL in a NOT NULL column change nothing; a row of the same url gets
\* the updated columns of the new row and the counter still advances;
\* otherwise the row is inserted under the next id.
Execute(tbl, sq, n, params) ==
    IF \E k \in DOMAIN params : ~Bindable(params[k])
    THEN [rows |-> tbl, seq |-> sq, error |-> "ProgrammingError"]
    ELSE LET excluded == [k \in DOMAIN params |-> Affinity(k, params[k])]
         IN  IF \E k \in NotNullColumns : excluded[k] = None
             THEN [rows |-> tbl, seq |-> sq, error |-> "IntegrityError"]
             ELSE IF \E r \in tbl : r.url = excluded.url
             THEN [rows |-> {IF r.url = excluded.url
                             THEN [k \in DOMAIN r |->
                                      IF k \in UpdatedColumns THEN excluded[k] ELSE r[k]]
                             ELSE r : r \in tbl},
                   seq |-> sq + 1, error |-> "none"]
             ELSE [rows |-> tbl \cup
                        {Update(excluded, [id |-> Num(sq + 1),
                                           created_at |-> CurrentTimestamp(n)])},
                   seq |-> sq + 1, error |-> "none"]

\* lines 754-805: the loop over records from position i, with the counts so
\* far; lines 807-810: commit and return (saved_count, updated_count)
RECURSIVE SaveLoop(_, _, _, _, _, _, _)
SaveLoop(tbl, sq, n, records, i, saved_count, updated_count) ==
    IF i > Len(records)
    THEN [rows |-> tbl, seq |-> sq, clock |-> n,
          ret |-> <<saved_count, updated_count>>]
    ELSE LET e == Execute(tbl, sq, n, Parameters(records[i], Isoformat(n)))
         IN  SaveLoop(e.rows, e.seq, n + 1, records, i + 1,
                      IF e.error = "none" THEN saved_count + 1 ELSE saved_count,
                      IF e.error = "IntegrityError" THEN updated_count + 1
                      ELSE updated_count)

save_models_to_db(tbl, sq, n, records) == SaveLoop(tbl, sq, n, records, 1, 0, 0)

\* the table right after init_database created it; nothing saved yet
DatabaseIdle ==
    /\ db_rows = {}
    /\ db_seq = 0
    /\ db_clock = 0
    /\ db_saves = 0
    /\ db_batch = <<>>
    /\ db_first = None
    /\ db_ret = None
    /\ db_history = <<>>

\* the statement of lines 756-794 raises nothing for the record
Executes(record) ==
    Execute({}, 0, 0, Parameters(record, Isoformat(0))).error = "none"

\* the history after the records from position i on were processed
RECURSIVE Remembered(_, _, _)
Remembered(hist, records, i) ==
    IF i > Len(records) THEN hist
    ELSE LET u == records[i].v["url"]
         IN  Remembered(
                IF ~Executes(records[i]) THEN hist
                ELSE [w \in DOMAIN hist \cup {u} |->
                        IF w # u THEN hist[w]
                        ELSE [first |-> IF u \in DOMAIN hist THEN hist[u].first
                                        ELSE records[i],
                              last |-> records[i]]],
                records, i + 1)

\* save_models_to_db(records) is called and returns
Save(records) ==
    LET r == save_models_to_db(db_rows, db_seq, db_clock, records)
    IN  /\ db_rows' = r.rows
        /\ db_seq' = r.seq
        /\ db_clock' = r.clock
        /\ db_saves' = db_saves + 1
        /\ db_batch' = records
        /\ db_first' = IF records = db_batch /\ db_saves > 0
                       THEN IF db_first = None THEN [t |-> "rows", v |-> db_rows]
                            ELSE db_first
                       ELSE None
        /\ db_ret' = r.ret
        /\ db_history' = Remembered(db_history, records, 1)

-----------------------------------------------------------------------------
(* web_dashboard.refresh_data and its background thread *)

\* the server threads that handle /api/refresh and the background threads
\* they can start
MaxRequests == 2
MaxRuns == 2
Requests == 1..MaxRequests
Runs == 1..MaxRuns

\* lines 555-556: the globals after import; no request, no thread
DashboardIdle ==
    /\ scraping_in_progress = FALSE
    /\ scraping_status = [last_update |-> None, last_result |-> None]
    /\ clock = 0
    /\ rpc = [t \in Requests |-> "idle"]
    /\ answered = [t \in Requests |-> None]
    /\ wpc = [w \in Runs |-> "none"]
    /\ finished = None

\* the threads started so far and the requests that can still start one
Started == {w \in Runs : wpc[w] # "none"}
InFlight == {t \in Requests : rpc[t] # "idle"}

\* a request for /api/refresh reaches server thread t; the answer to the
\* thread's previous request has been sent and is gone
RefreshArrive(t) ==
    /\ rpc[t] = "idle"
    /\ Cardinality(Started) + Cardinality(InFlight) < MaxRuns
    /\ rpc' = [rpc EXCEPT ![t] = "test"]
    /\ answered' = [answered EXCEPT ![t] = None]
    /\ UNCHANGED <<scraping_in_progress, scraping_status, clock, wpc, finished>>

\* a plausible slip: the stamp of line 570 is taken before the test
RefreshTestStampsFirst(t) ==
    /\ rpc[t] = "test"
    /\ scraping_status' = [scraping_status EXCEPT !.last_update = Isoformat(clock)]
    /\ clock' = clock + 1
    /\ IF scraping_in_progress
       THEN /\ answered' = [answered EXCEPT ![t] =
                    [code |-> 400, status |-> "already_running",
                     last_update |-> Isoformat(clock)]]
            /\ rpc' = [rpc EXCEPT ![t] = "idle"]
       ELSE /\ rpc' = [rpc EXCEPT ![t] = "set"]
            /\ UNCHANGED answered
    /\ UNCHANGED <<scraping_in_progress, wpc, finished>>

\* lines 562-567: if scraping_in_progress, answer already_running with 400
RefreshTest(t) ==
    /\ rpc[t] = "test"
    /\ IF scraping_in_progress
       THEN /\ answered' = [answered EXCEPT ![t] =
                    [code |-> 400, status |-> "already_running",
                     last_update |-> scraping_status.last_update]]
            /\ rpc' = [rpc EXCEPT ![t] = "idle"]
       ELSE /\ rpc' = [rpc EXCEPT ![t] = "set"]
            /\ UNCHANGED answered
    /\ UNCHANGED <<scraping_in_progress, scraping_status, clock, wpc, finished>>

\* line 569: scraping_in_progress = True
RefreshSet(t) ==
    /\ rpc[t] = "set"
    /\ scraping_in_progress' = TRUE
    /\ rpc' = [rpc EXCEPT ![t] = "stamp"]
    /\ UNCHANGED <<scraping_status, clock, answered, wpc, finished>>

\* line 570: scraping_status['last_update'] = datetime.now().isoformat()
RefreshStamp(t) ==
    /\ rpc[t] = "stamp"
    /\ scraping_status' = [scraping_status EXCEPT !.last_update = Isoformat(clock)]
    /\ clock' = clock + 1
    /\ rpc' = [rpc EXCEPT ![t] = "start"]
    /\ UNCHANGED <<scraping_in_progress, answered, wpc, finished>>

\* lines 593-601: the background thread is started and the request answered
RefreshStart(t) ==
    /\ rpc[t] = "start"
    /\ \E w \in Runs :
        /\ wpc[w] = "none"
        /\ \A v \in Runs : v < w => wpc[v] # "none"
        /\ wpc' = [wpc EXCEPT ![w] = "main"]
    /\ answered' = [answered EXCEPT ![t] =
            [code |-> 200, status |-> "refresh_triggered", timestamp |-> Isoformat(clock)]]
    /\ clock' = clock + 1
    /\ rpc' = [rpc EXCEPT ![t] = "idle"]
    /\ UNCHANGED <<scraping_in_progress, scraping_status, finished>>

\* lines 575-588: in background thread w model_scraper.main() returns or
\* raises an Exception and last_result is written, or the import of
\* model_scraper leaves by exit(1) (model_scraper.py:13-17, requests is not
\* installed), a SystemExit that `except Exception` does not catch; what
\* main() does to the database is in save_models_to_db
ScraperMain(w) ==
    /\ wpc[w] = "main"
    /\ \/ /\ \E success \in BOOLEAN :
                scraping_status' = [scraping_status EXCEPT !.last_result =
                    [success |-> success, timestamp |-> Isoformat(clock), run |-> w]]
          /\ clock' = clock + 1
          /\ wpc' = [wpc EXCEPT ![w] = "finally"]
       \/ /\ UNCHANGED <<scraping_status, clock>>
          /\ wpc' = [wpc EXCEPT ![w] = "exiting"]
    /\ UNCHANGED <<scraping_in_progress, rpc, answered, finished>>

\* a plausible slip: the flag is cleared at the end of the try block only
ScraperClearsOnSuccess(w) ==
    /\ wpc[w] \in {"finally", "exiting"}
    /\ scraping_in_progress' =
            IF /\ scraping_status.last_result # None
               /\ scraping_status.last_result.run = w
               /\ scraping_status.last_result.success
            THEN FALSE ELSE scraping_in_progress
    /\ wpc' = [wpc EXCEPT ![w] = "ended"]
    /\ finished' = [run |-> w, wrote |-> wpc[w] = "finally"]
    /\ UNCHANGED <<scraping_status, clock, rpc, answered>>

\* lines 590-591: finally: scraping_in_progress = False
ScraperFinally(w) ==
    /\ wpc[w] \in {"finally", "exiting"}
    /\ scraping_in_progress' = FALSE
    /\ wpc' = [wpc EXCEPT ![w] = "ended"]
    /\ finished' = [run |-> w, wrote |-> wpc[w] = "finally"]
    /\ UNCHANGED <<scraping_status, clock, rpc, answered>>

-----------------------------------------------------------------------------
(* Specifications *)

FunctionIdle ==
    /\ fpc = "idle"
    /\ arg = None
    /\ out = None

-----------------------------------------------------------------------------
(* The extraction client called directly *)

S_local_path == <<"/", "t", "m", "p", "/", "m", ".", "g", "g", "u", "f">>

MaxRetriesArg == 3

InitClient ==
    /\ ClientIdle
    /\ FunctionIdle
    /\ available = TRUE
    /\ EnrichIdle
    /\ ScrapeIdle
    /\ DashboardIdle
    /\ DatabaseIdle
    /\ HubsFixed
    /\ earlier = None

CallFromHf ==
    /\ \E f \in {F_Q4_K_M, F_Q5_K_S_upper}, n \in 0..MaxRetriesArg :
            parse_gguf_from_hf(S_repo, f, n)
    /\ UNCHANGED <<xvars, fvars, evars, svars>>

CallFromMs ==
    /\ \E f \in {F_Q4_K_M, F_Q5_K_S_upper}, n \in 0..MaxRetriesArg :
            parse_gguf_from_ms(S_repo, f, n)
    /\ UNCHANGED <<xvars, fvars, evars, svars>>

CallLocal ==
    /\ parse_gguf_local(S_local_path)
    /\ UNCHANGED <<xvars, fvars, evars, svars>>

ClientStep ==
    /\ RetryStep
    /\ UNCHANGED <<xvars, fvars, evars, svars>>

\* the caller has the returned value; the locals of the call are gone
ClientReturn ==
    /\ cpc = "done"
    /\ ClientReset
    /\ UNCHANGED <<xvars, fvars, evars, svars>>

NextClient == CallFromHf \/ CallFromMs \/ CallLocal \/ ClientStep \/ ClientReturn

SpecClient == InitClient /\ [][NextClient]_vars

\* the interpreter runs a call to its end
SpecClientFair == SpecClient /\ WF_vars(ClientStep)

-----------------------------------------------------------------------------
(* Calls of the extraction client one after the other *)

CallNext ==
    /\ \E n \in 0..MaxRetriesArg : parse_gguf_from_hf(S_repo, F_Q4_K_M, n)
    /\ UNCHANGED <<xvars, fvars, evars, svars>>

\* the call returns; what it had reached is remembered for the next call
ClientReturnRemembered ==
    /\ cpc = "done"
    /\ ClientReset
    /\ earlier' = [attempt |-> attempt, delay |-> delay]
    /\ UNCHANGED <<dvars, bvars, repo_files, fvars, evars, svars>>

NextSeries == CallNext \/ CallLocal \/ ClientStep \/ ClientReturnRemembered

SpecSeries == InitClient /\ [][NextSeries]_vars

-----------------------------------------------------------------------------
(* enrich_model_with_gguf_metadata called directly *)

\* a Hugging Face record, a ModelScope record whose url ends in a slash and
\* a record without url
EnrichInputs ==
    << [md |-> HfRecord(Obj([id |-> Str(S_repo)])), src |-> S_huggingface],
       [md |-> Obj([name |-> Str(S_name), url |-> Str(S_ms_url \o S_repo \o <<"/">>)]),
        src |-> S_modelscope],
       [md |-> EmptyDict, src |-> S_huggingface] >>

InitEnrich ==
    /\ FunctionIdle
    /\ ClientIdle
    /\ available \in BOOLEAN
    /\ EnrichIdle
    /\ ScrapeIdle
    /\ DashboardIdle
    /\ DatabaseIdle
    /\ HubsFixed
    /\ earlier = None

CallEnrich ==
    /\ \E i \in DOMAIN EnrichInputs :
            EnrichBegin(EnrichInputs[i].md, EnrichInputs[i].src,
                        DOMAIN ListingChoices(EnrichInputs[i].src))
    /\ UNCHANGED <<xvars, fvars, svars>>

EnrichClientStep ==
    /\ epc = "parse"
    /\ RetryStep
    /\ UNCHANGED <<xvars, fvars, evars, svars>>

EnrichFinish ==
    /\ EnrichEnd
    /\ UNCHANGED <<xvars, fvars, svars>>

EnrichReturn ==
    /\ epc \in {"done", "raised"}
    /\ EnrichReset
    /\ UNCHANGED <<xvars, fvars, svars>>

NextEnrich == CallEnrich \/ EnrichClientStep \/ EnrichFinish \/ EnrichReturn

SpecEnrich == InitEnrich /\ [][NextEnrich]_vars

-----------------------------------------------------------------------------
(* The scrape passes *)

\* what the listing request of an enrichment is answered in a pass: files
\* with a Q4_K_M among them, files without a .gguf one, no answer
PassListings == {1, 4, 9}

\* the repositories whose file listing differs from behaviour to behaviour:
\* those of the entries E_gguf and E_coder
Repos == {PyGet(E_gguf, "id", None).v, PyGet(E_coder, "id", None).v}

\* the listing request for the repository of entry model is answered with
\* what the hub holds for it; for any other entry, with any of PassListings
ListingsOf(model) ==
    LET id == PyGet(model, "id", Str(<<>>))
    IN  IF id.t = "str" /\ id.v \in Repos THEN {repo_files[id.v]} ELSE PassListings

\* what the tool does in a pass: a document, a document without estimate
\* items, not found, a failure, a process that cannot be started
PassOutcomes == {1, 5, 6, 8, 10}

InitScrape ==
    /\ FunctionIdle
    /\ ClientIdle
    /\ available \in BOOLEAN
    /\ EnrichIdle
    /\ ScrapeIdle
    /\ DashboardIdle
    /\ DatabaseIdle
    /\ repo_files \in [Repos -> PassListings]
    /\ earlier = None

scrape_huggingface ==
    /\ ScrapeBegin(S_huggingface)
    /\ UNCHANGED <<xvars, fvars, cvars, evars>>

scrape_modelscope ==
    /\ ScrapeBegin(S_modelscope)
    /\ UNCHANGED <<xvars, fvars, cvars, evars>>

ScrapeRequest ==
    /\ Request(DOMAIN Responses(hub))
    /\ UNCHANGED <<xvars, fvars>>

ScrapeLoopBody ==
    /\ spc = "loop"
    /\ pos <= Len(data)
    /\ LoopBody(ListingsOf(data[pos]))
    /\ UNCHANGED <<xvars, fvars>>

ScrapeClientStep ==
    /\ spc = "enrich"
    /\ epc = "parse"
    /\ RetryStepOver(PassOutcomes)
    /\ UNCHANGED <<xvars, fvars, evars, svars>>

ScrapeEnrichEnd ==
    /\ spc = "enrich"
    /\ EnrichEnd
    /\ UNCHANGED <<xvars, fvars, svars>>

ScrapeCollect ==
    /\ Collect
    /\ UNCHANGED <<xvars, fvars>>

ScrapeLoopEnd ==
    /\ LoopEnd
    /\ UNCHANGED <<xvars, fvars>>

ScrapeReturn ==
    /\ spc = "done"
    /\ ScrapeReset
    /\ UNCHANGED <<xvars, fvars, cvars, evars>>

NextScrape ==
    \/ scrape_huggingface
    \/ scrape_modelscope
    \/ ScrapeRequest
    \/ ScrapeLoopBody
    \/ ScrapeClientStep
    \/ ScrapeEnrichEnd
    \/ ScrapeCollect
    \/ ScrapeLoopEnd
    \/ ScrapeReturn

SpecScrape == InitScrape /\ [][NextScrape]_vars

-----------------------------------------------------------------------------
(* The dashboard under concurrent refresh requests *)

InitRefresh ==
    /\ FunctionIdle
    /\ ClientIdle
    /\ available = TRUE
    /\ EnrichIdle
    /\ ScrapeIdle
    /\ DashboardIdle
    /\ DatabaseIdle
    /\ HubsFixed
    /\ earlier = None

Arrive == \E t \in Requests : RefreshArrive(t) /\ UNCHANGED <<fvars, cvars, evars, svars, bvars, repo_files, earlier>>
Test == \E t \in Requests : RefreshTest(t) /\ UNCHANGED <<fvars, cvars, evars, svars, bvars, repo_files, earlier>>
SetFlag == \E t \in Requests : RefreshSet(t) /\ UNCHANGED <<fvars, cvars, evars, svars, bvars, repo_files, earlier>>
Stamp == \E t \in Requests : RefreshStamp(t) /\ UNCHANGED <<fvars, cvars, evars, svars, bvars, repo_files, earlier>>
StartThread == \E t \in Requests : RefreshStart(t) /\ UNCHANGED <<fvars, cvars, evars, svars, bvars, repo_files, earlier>>
RunMain == \E w \in Runs : ScraperMain(w) /\ UNCHANGED <<fvars, cvars, evars, svars, bvars, repo_files, earlier>>
RunFinally == \E w \in Runs : ScraperFinally(w) /\ UNCHANGED <<fvars, cvars, evars, svars, bvars, repo_files, earlier>>

NextRefresh ==
    \/ Arrive
    \/ Test
    \/ SetFlag
    \/ Stamp
    \/ StartThread
    \/ RunMain
    \/ RunFinally

SpecRefresh == InitRefresh /\ [][NextRefresh]_vars

\* a request handler that is past its test runs on to its return, and a
\* started thread runs model_scraper.main() and its finally clause to the end
SpecRefreshFair ==
    /\ SpecRefresh
    /\ WF_vars(SetFlag)
    /\ WF_vars(Stamp)
    /\ WF_vars(StartThread)
    /\ WF_vars(RunMain)
    /\ WF_vars(RunFinally)

-----------------------------------------------------------------------------
(* save_models_to_db called again and again on the records of scrape passes *)

MaxBatch == 2
MaxSaves == 2
MaxStamps == 4

\* records of the scrape passes: a plain one, the same url enriched and with
\* other counts, the same url with other tags and category, the same url
\* with a download count the hub sent as a list, one of the other hub, and
\* that one flagged after a failed extraction
R_plain == HfRecord(E_gguf)
R_enriched ==
    Enriched(HfRecord(Obj(Update(E_gguf.v, [downloads |-> Num(12), likes |-> Num(6)]))),
             ExtractMetadata(DocA), Str(F_Q4_K_M))
R_retagged == HfRecord(Obj(Update(E_gguf.v, [tags |-> Arr(<<Str(S_gguf), Str(S_coding)>>)])))
R_unbindable == HfRecord(Obj(Update(E_gguf.v, [downloads |-> Arr(<<Num(1)>>)])))
R_modelscope == MsRecord(E_coder)
R_flagged == Enriched(MsRecord(E_coder), None, Str(F_Q4_K_M))
SaveRecords == {R_plain, R_enriched, R_retagged, R_unbindable, R_modelscope, R_flagged}
Batches == SeqsUpTo(SaveRecords, MaxBatch)

InitSave ==
    /\ FunctionIdle
    /\ ClientIdle
    /\ available = TRUE
    /\ EnrichIdle
    /\ ScrapeIdle
    /\ DashboardIdle
    /\ DatabaseIdle
    /\ HubsFixed
    /\ earlier = None

\* the calls are bounded and so are the records they process together
CallSave ==
    /\ db_saves < MaxSaves
    /\ \E records \in Batches :
        /\ db_clock + Len(records) <= MaxStamps
        /\ Save(records)
    /\ UNCHANGED <<fvars, cvars, evars, svars, dvars, repo_files, earlier>>

CallSaveAgain ==
    /\ db_saves > 0
    /\ db_saves < MaxSaves
    /\ db_clock + Len(db_batch) <= MaxStamps
    /\ Save(db_batch)
    /\ UNCHANGED <<fvars, cvars, evars, svars, dvars, repo_files, earlier>>

NextSave ==
    \/ CallSave
    \/ CallSaveAgain

SpecSave == InitSave /\ [][NextSave]_vars

-----------------------------------------------------------------------------
(* pick_representative_gguf_file applied to every listing within the bound *)

InitPick ==
    /\ fpc = "call"
    /\ arg \in SeqsUpTo(FileNames, MaxFiles)
    /\ out = None
    /\ ClientIdle
    /\ available = TRUE
    /\ EnrichIdle
    /\ ScrapeIdle
    /\ DashboardIdle
    /\ DatabaseIdle
    /\ HubsFixed
    /\ earlier = None

CallPick ==
    /\ fpc = "call"
    /\ out' = pick_representative_gguf_file(arg)
    /\ fpc' = "returned"
    /\ UNCHANGED <<xvars, arg, cvars, evars, svars>>

NextPick == CallPick

SpecPick == InitPick /\ [][NextPick]_vars

-----------------------------------------------------------------------------
(* _extract_metadata applied to the documents *)

\* documents that vary the metadata block
InitExtractMetadataBlock ==
    \E p \in DOMAIN ParameterChoices, s \in DOMAIN ByteChoices, w \in DOMAIN BitsChoices,
       a \in {None, Str(S_llama)} :
        arg = RawDoc(MetadataBlock(ParameterChoices[p], ByteChoices[s], BitsChoices[w], a),
                     ArchitectureBlock, EstimateBlock(Arr(<<FullItem>>)))

\* documents that vary the estimate block
InitExtractEstimateBlock ==
    \E v \in DOMAIN ByteChoices, r \in DOMAIN ByteChoices :
    \E vs \in DOMAIN VramsChoices(ByteChoices[v]), rs \in DOMAIN RamChoices(ByteChoices[r]) :
    \E i \in DOMAIN ItemsChoices(None) :
        arg = RawDoc(FullMetadata, ArchitectureBlock,
                     EstimateBlock(ItemsChoices(
                         EstimateItem(VramsChoices(ByteChoices[v])[vs],
                                      RamChoices(ByteChoices[r])[rs]))[i]))

\* documents that vary which blocks there are, and one that is no dict
InitExtractBlocks ==
    \/ \E m \in 1..4, a \in 1..4, e \in 1..4 :
        arg = RawDoc(BlockChoices(FullMetadata)[m], BlockChoices(ArchitectureBlock)[a],
                     BlockChoices(EstimateBlock(Arr(<<FullItem>>)))[e])
    \/ arg = Arr(<<FullMetadata>>)

InitExtract ==
    /\ fpc = "call"
    /\ out = None
    /\ ClientIdle
    /\ available = TRUE
    /\ EnrichIdle
    /\ ScrapeIdle
    /\ DashboardIdle
    /\ DatabaseIdle
    /\ HubsFixed
    /\ earlier = None
    /\ \/ InitExtractMetadataBlock
       \/ InitExtractEstimateBlock
       \/ InitExtractBlocks

CallExtractMetadata ==
    /\ fpc = "call"
    /\ out' = ExtractMetadata(arg)
    /\ fpc' = "returned"
    /\ UNCHANGED <<xvars, arg, cvars, evars, svars>>

NextExtract == CallExtractMetadata

SpecExtract == InitExtract /\ [][NextExtract]_vars

-----------------------------------------------------------------------------
(* C1 - C4: the retry loop *)

RunIndices == {i \in DOMAIN events : events[i].e = "run_parser"}
SleepIndices == {i \in DOMAIN events : events[i].e = "sleep"}

AttemptCount == Cardinality(RunIndices)
SpawnCount == Cardinality({i \in RunIndices : events[i].o # 0})

\* what _run_parser handed to the loop
GaveNotFound(ev) ==
    /\ ev.res.t = "obj"
    /\ S_error_key \in DOMAIN ev.res.v
    /\ ev.res.v[S_error_key] = Str(S_not_found)
GaveTransient(ev) == ev.res = None
GaveRecord(ev) == ev.res.t = "obj" /\ S_error_key \notin DOMAIN ev.res.v

RecordKeys ==
    {"architecture", "quantization", "parameters", "parameters_str",
     "context_length", "embedding_length", "file_size_bytes", "file_size_gb",
     "bits_per_weight", "vram_required_gb", "ram_required_gb", "model_name",
     "flash_attention", "fully_offloadable"}

IsMetadataRecord(x) == x.t = "obj" /\ DOMAIN x.v = RecordKeys

\* C1: as soon as one attempt is classified NotFound, no further subprocess
\* invocation and no backoff sleep happens and the call returns None; a
\* NotFound on the first attempt gives exactly one subprocess invocation.
C1_NotFoundStopsAtOnce ==
    \A i \in RunIndices :
        GaveNotFound(events[i])
            => /\ i = Len(events)
               /\ cpc = "done"
               /\ ret = None
               /\ (i = 1 => SpawnCount = 1)

C1_Witness ==
    /\ cpc = "done"
    /\ retries = 3
    /\ Len(events) = 1
    /\ GaveNotFound(events[1])
    /\ SpawnCount = 1
    /\ ret = None

\* C2: the retry loop makes at most max_attempts single attempts and ends;
\* when every attempt is Transient it makes exactly max_attempts attempts and
\* returns None.
C2_AtMostRetriesAttempts ==
    /\ [](AttemptCount <= retries)
    /\ []((cpc = "done" /\ \A i \in RunIndices : GaveTransient(events[i]))
            => (AttemptCount = retries /\ ret = None))
    /\ (cpc = "loop" ~> cpc = "done")

C2_Witness ==
    /\ cpc = "done"
    /\ retries = 3
    /\ AttemptCount = 3
    /\ \A i \in RunIndices : GaveTransient(events[i])
    /\ ret = None

\* 2 * 2^(j-1)
RECURSIVE BackoffOf(_)
BackoffOf(j) == IF j = 1 THEN 2 ELSE 2 * BackoffOf(j - 1)

\* C3: when attempts 1..k-1 are Transient and attempt k succeeds, the call
\* returns the record normalized from attempt k's output, makes exactly k
\* attempts and sleeps exactly k-1 times, 2, 4, ... time units, each sleep
\* between two consecutive attempts.
C3_SuccessAfterTransients ==
    (cpc = "done" /\ Len(events) > 0 /\ GaveRecord(events[Len(events)]))
        => LET k == AttemptCount
           IN  /\ Len(events) = 2 * k - 1
               /\ \A j \in 1..k :
                    /\ events[2 * j - 1].e = "run_parser"
                    /\ events[2 * j - 1].n = j
               /\ \A j \in 1..(k - 1) :
                    /\ GaveTransient(events[2 * j - 1])
                    /\ events[2 * j].e = "sleep"
                    /\ events[2 * j].d = BackoffOf(j)
               /\ ret = ExtractMetadata(ProcChoices[events[2 * k - 1].o].stdout.doc)
               /\ IsMetadataRecord(ret)

C3_Witness ==
    /\ cpc = "done"
    /\ Len(events) = 5
    /\ GaveTransient(events[1])
    /\ events[2] = [e |-> "sleep", d |-> 2]
    /\ GaveTransient(events[3])
    /\ events[4] = [e |-> "sleep", d |-> 4]
    /\ GaveRecord(events[5])
    /\ ret = events[5].res

\* C4: every call of the extraction client ends by returning a populated
\* metadata record or None, and never in a raised exception, whatever the
\* failures of its single attempts.
C4_ReturnsRecordOrNone ==
    cpc = "done" => (ret = None \/ IsMetadataRecord(ret))

\* a call whose three attempts met an exception of subprocess.run, an
\* exception of the normalisation and a missing executable
C4_Witness ==
    /\ cpc = "done"
    /\ ret = None
    /\ \E i \in RunIndices : events[i].o # 0 /\ ProcChoices[events[i].o].kind = "oserror"
    /\ \E i \in RunIndices : events[i].o # 0 /\ ProcChoices[events[i].o].stdout.doc = DocNoDict
    /\ \E i \in RunIndices : events[i].o = 0

-----------------------------------------------------------------------------
(* C8 *)

GbFields == {"file_size_gb", "vram_required_gb", "ram_required_gb", "bits_per_weight"}

\* the value is a number equal to zero
IsZero(x) == (x.t = "num" /\ x.v = 0) \/ (x.t = "float" /\ x.n = 0)

IsPositive(x) == (x.t = "num" /\ x.v > 0) \/ (x.t = "float" /\ x.n > 0)

\* C8: in every record _extract_metadata produces, each of file_size_gb,
\* vram_required_gb, ram_required_gb and bits_per_weight is either absent
\* (None) or strictly greater than zero, never 0.
C8_GbFieldsPositiveOrAbsent ==
    (fpc = "returned" /\ out.t = "obj")
        => \A k \in GbFields : out.v[k] = None \/ IsPositive(out.v[k])

\* what the document holds where the function reads a byte count; Missing
\* when the path ends before
At(x, k) == IF x.t = "obj" /\ k \in DOMAIN x.v THEN x.v[k] ELSE Missing
FirstOf(x) == IF x.t = "arr" /\ Len(x.v) > 0 THEN x.v[1] ELSE Missing
FileSizeRead == At(At(arg, "metadata"), "fileSize")
VramRead == At(FirstOf(At(FirstOf(At(At(arg, "estimate"), "items")), "vrams")), "nonuma")
RamRead == At(At(FirstOf(At(At(arg, "estimate"), "items")), "ram"), "nonuma")

\* h / 100 is b / 2^30 rounded to two decimals: 100 * b / 2^30 lies within
\* one half of h, and on the half only when h is even. Stated on
\* 25 * b / 2^20, whose whole part is a and whose fraction is f / 2^20,
\* against (2 * h - 1) * 128 and (2 * h + 1) * 128.
IsNearestHundredth(b, h) ==
    LET a == 25 * (b \div 1048576) + (25 * (b % 1048576)) \div 1048576
        f == (25 * (b % 1048576)) % 1048576
        lower == (2 * h - 1) * 128
        upper == (2 * h + 1) * 128
    IN  /\ a >= lower
        /\ a < upper \/ (a = upper /\ f = 0)
        /\ (f = 0 /\ (a = lower \/ a = upper)) => h % 2 = 0

GbAgrees(b, g) ==
    /\ (b.t = "num" /\ b.v > 0) =>
            (g.t = "float" /\ g.d = 100 /\ IsNearestHundredth(b.v, g.n))
    /\ (b.t \in {"missing", "null"} \/ IsZero(b)) => g = None

\* C20: for a byte count b > 0 read for the file size, the VRAM or the RAM
\* the gb field of the record is b / 1024^3 rounded to two decimals, and for
\* a byte count that is zero or missing the gb field is None, not 0.0.
C20_GbIsRoundedQuotient ==
    (fpc = "returned" /\ out.t = "obj") =>
        /\ GbAgrees(FileSizeRead, out.v["file_size_gb"])
        /\ GbAgrees(VramRead, out.v["vram_required_gb"])
        /\ GbAgrees(RamRead, out.v["ram_required_gb"])

\* a record with 1.5 for the file size, 0.01 for 5368710 bytes of VRAM and
\* None for zero bytes of RAM
C20_Witness ==
    /\ fpc = "returned"
    /\ out.t = "obj"
    /\ FileSizeRead = Num(1610612736)
    /\ out.v["file_size_gb"] = Flt(150, 100)
    /\ VramRead = Num(5368710)
    /\ out.v["vram_required_gb"] = Flt(1, 100)
    /\ RamRead = Num(0)
    /\ out.v["ram_required_gb"] = None

\* the parameter count the function reads
ParametersRead == At(At(arg, "metadata"), "parameters")

\* s is the decimal numeral of n: digits only, no leading zero
IsNumeral(s, n) ==
    /\ IsDigits(s)
    /\ Len(s) = 1 \/ s[1] # "0"
    /\ DigitsValue(s) = n

\* s is "<m>M" with m the whole number nearest to p / 10^6
IsMillionsForm(s, p) ==
    /\ Len(s) >= 2
    /\ s[Len(s)] = "M"
    /\ \E m \in 0..1000 :
        /\ IsNumeral(SubSeq(s, 1, Len(s) - 1), m)
        /\ m * 1000000 - p <= 500000
        /\ p - m * 1000000 <= 500000

\* s is "<w>.<d>B" with w.d the number of tenths nearest to p / 10^9
IsBillionsForm(s, p) ==
    /\ Len(s) >= 4
    /\ s[Len(s)] = "B"
    /\ s[Len(s) - 2] = "."
    /\ \E w \in 0..2, d \in 0..9 :
        /\ IsNumeral(SubSeq(s, 1, Len(s) - 3), w)
        /\ s[Len(s) - 1] = DigitChars[d + 1]
        /\ (10 * w + d) * 100000000 - p <= 50000000
        /\ p - (10 * w + d) * 100000000 <= 50000000

\* C21: for an integer parameter count p >= 0, parameters_str is p / 10^9
\* with one decimal and 'B' when p >= 10^9, p / 10^6 with no decimals and 'M'
\* when 10^6 <= p < 10^9, and the numeral of p when p < 10^6; exactly one of
\* the three forms applies.
C21_ParametersDisplay ==
    (fpc = "returned" /\ out.t = "obj" /\ ParametersRead.t = "num") =>
        LET p == ParametersRead.v
            shown == out.v["parameters_str"]
        IN  /\ shown.t = "str"
            /\ IsBillionsForm(shown.v, p) <=> p >= 1000000000
            /\ IsMillionsForm(shown.v, p) <=> (p >= 1000000 /\ p < 1000000000)
            /\ IsNumeral(shown.v, p) <=> p < 1000000

\* 500000000 parameters are shown as 500M
C21_Witness ==
    /\ fpc = "returned"
    /\ out.t = "obj"
    /\ ParametersRead = Num(500000000)
    /\ out.v["parameters_str"] = Str(<<"5", "0", "0", "M">>)

\* the time slept in the first n events of the call
RECURSIVE WaitUpTo(_)
WaitUpTo(n) ==
    IF n = 0 THEN 0
    ELSE (IF events[n].e = "sleep" THEN events[n].d ELSE 0) + WaitUpTo(n - 1)

TotalWait == WaitUpTo(Len(events))

AllTransient == \A i \in RunIndices : GaveTransient(events[i])

\* C14: in a finished call of at least one attempt whose attempts were all
\* Transient, failed attempt i < retries is followed by a sleep of
\* 2 * 2^(i-1), the last attempt by none, and the sleeps add up to
\* 2 * (2^(retries-1) - 1).
C14_BackoffSchedule ==
    (cpc = "done" /\ retries >= 1 /\ AllTransient) =>
        /\ Len(events) = 2 * retries - 1
        /\ \A i \in 1..(retries - 1) :
                /\ events[2 * i - 1].e = "run_parser"
                /\ events[2 * i].e = "sleep"
                /\ events[2 * i].d = 2 * 2 ^ (i - 1)
        /\ events[Len(events)].e = "run_parser"
        /\ TotalWait = 2 * (2 ^ (retries - 1) - 1)

\* the default of three attempts, all failed: 2 + 4 = 6 time units slept
C14_Witness ==
    /\ cpc = "done"
    /\ retries = MAX_RETRIES
    /\ AllTransient
    /\ TotalWait = 6
    /\ SleepIndices = {2, 4}

\* the attempts so far all found the executable missing
AllMissing == \A i \in RunIndices : events[i].o = 0

\* C15: an attempt that finds the executable missing runs no command and is
\* Transient; a finished call of at least one attempt that found it missing
\* every time made retries attempts with the sleeps between them, started no
\* subprocess and returned None.
C15_MissingExecutable ==
    /\ \A i \in RunIndices :
            events[i].o = 0 => (GaveTransient(events[i]) /\ events[i].cmd = <<>>)
    /\ (cpc = "done" /\ retries >= 1 /\ AllMissing) =>
            /\ AttemptCount = retries
            /\ SpawnCount = 0
            /\ Cardinality(SleepIndices) = retries - 1
            /\ ret = None

C15_Witness ==
    /\ cpc = "done"
    /\ retries = MAX_RETRIES
    /\ AllMissing
    /\ AttemptCount = MAX_RETRIES
    /\ SleepIndices = {2, 4}
    /\ ret = None

\* the call in progress is one of parse_gguf_local
IsLocalCall == cpc # "idle" /\ Len(args) > 0 /\ args[1] = S_path_flag

\* C13: a call of parse_gguf_local makes one attempt whatever its outcome:
\* never a second attempt, never a sleep, and None after a failed attempt.
C13_LocalSingleAttempt ==
    IsLocalCall =>
        /\ AttemptCount <= 1
        /\ SleepIndices = {}
        /\ cpc = "done" =>
            /\ AttemptCount = 1
            /\ ret = IF GaveRecord(events[1]) THEN events[1].res ELSE None

\* a local call that ended after one failed attempt
C13_Witness ==
    /\ IsLocalCall
    /\ cpc = "done"
    /\ Len(events) = 1
    /\ GaveTransient(events[1])
    /\ ret = None

\* the tool of attempt ev ran, exited with code zero and printed valid JSON
ExitZeroWithJson(ev) ==
    /\ ev.o # 0
    /\ ProcChoices[ev.o].kind = "exit"
    /\ ProcChoices[ev.o].returncode = 0
    /\ ProcChoices[ev.o].stdout.valid

\* C12: every attempt whose tool exits with code zero and prints valid JSON
\* yields a metadata record, which ends the loop and is what the call returns.
C12_ExitZeroJsonIsSuccess ==
    \A i \in RunIndices :
        ExitZeroWithJson(events[i]) =>
            /\ IsMetadataRecord(events[i].res)
            /\ i = Len(events)
            /\ cpc = "done"
            /\ ret = events[i].res

\* the text s has the three characters 404 somewhere
Has404(s) ==
    \E k \in 1..(Len(s) - 2) : s[k] = "4" /\ s[k + 1] = "0" /\ s[k + 2] = "4"

\* the process of attempt ev ran, ended with a nonzero exit code and wrote
\* 404 to its standard error
ExitedNonzeroWith404(ev) ==
    /\ ev.o # 0
    /\ ProcChoices[ev.o].kind = "exit"
    /\ ProcChoices[ev.o].returncode # 0
    /\ Has404(ProcChoices[ev.o].stderr)

\* C23: an attempt is NotFound exactly when the process exits with a nonzero
\* code and its standard error contains 404; never on exit code 0, on a
\* nonzero exit without 404, on a timeout or on a missing executable.
C23_NotFoundIffNonzeroAnd404 ==
    \A i \in RunIndices : GaveNotFound(events[i]) <=> ExitedNonzeroWith404(events[i])

\* a call in which an attempt failed without 404 and the next one exited
\* with code 1 and 404 on standard error
C23_Witness ==
    \E i \in RunIndices :
        /\ i > 1
        /\ ~GaveNotFound(events[1])
        /\ events[1].o # 0
        /\ ProcChoices[events[1].o].kind = "exit"
        /\ ProcChoices[events[1].o].returncode # 0
        /\ ExitedNonzeroWith404(events[i])
        /\ GaveNotFound(events[i])

\* C25: every call of the client starts at attempt 1 and its first backoff
\* wait is 2, whatever attempt and delay the call before it had reached.
C25_RetryStateLocal ==
    /\ (cpc # "idle" /\ events = <<>>) => (attempt = 0 /\ delay = 2)
    /\ RunIndices # {} => (events[1].e = "run_parser" /\ events[1].n = 1)
    /\ \A i \in SleepIndices :
            (\A j \in SleepIndices : i <= j) => events[i].d = 2

\* a call that waited 2 after its first attempt, made after a call that had
\* used three attempts and doubled its delay to 8
C25_Witness ==
    /\ earlier # None
    /\ earlier.attempt = 2
    /\ earlier.delay = 8
    /\ Len(events) >= 2
    /\ events[1].e = "run_parser"
    /\ events[1].n = 1
    /\ events[2].e = "sleep"
    /\ events[2].d = 2

-----------------------------------------------------------------------------
(* C9, C10 *)

HasPreference(f, p) == Contains(Lower(f), preferences[p])

TiersPresent(files) ==
    {p \in 1..Len(preferences) : \E i \in 1..Len(files) : HasPreference(files[i], p)}

Min(S) == CHOOSE x \in S : \A y \in S : x <= y

\* the earliest file, in listing order, that holds the highest tier present
EarliestOfBestTier(files) ==
    files[Min({i \in 1..Len(files) : HasPreference(files[i], Min(TiersPresent(files)))})]

C10_FallbackFirst ==
    (fpc = "returned" /\ arg # <<>> /\ TiersPresent(arg) = {})
        => out = Str(arg[1])

C10_Witness ==
    /\ fpc = "returned"
    /\ arg = <<F_Q8_0, F_f16>>
    /\ out = Str(F_Q8_0)

\* C11: for the empty list the function returns None and raises nothing; for
\* every non-empty list it returns a value, one of the names of the list.
C11_EmptyListGivesNone ==
    fpc = "returned" =>
        /\ ~IsRaise(out)
        /\ arg = <<>> => out = None
        /\ arg # <<>> => (out # None /\ out.t = "str"
                            /\ \E i \in 1..Len(arg) : out.v = arg[i])

C11_Witness ==
    /\ fpc = "returned"
    /\ arg = <<>>
    /\ out = None

-----------------------------------------------------------------------------
(* Claims on enrich_model_with_gguf_metadata *)

MetadataFields ==
    {"quantization", "gguf_architecture", "context_length", "parameter_count",
     "vram_required_gb", "bits_per_weight"}

\* the extraction client was called and returned None
ExtractionFailed == epc = "done" /\ cpc = "done" /\ ret = None

\* C5: when the listing is non-empty and the extraction returns None, whatever
\* the failure, the returned record has is_gguf = True and gguf_file = the
\* representative file, none of the six metadata fields is set, and every
\* other field is as it was given.
C5_FailedExtractionFlagsOnly ==
    (ExtractionFailed /\ found_files # <<>>) =>
        /\ DOMAIN model_dict.v = DOMAIN given.v \cup {"is_gguf", "gguf_file"}
        /\ model_dict.v["is_gguf"] = Bool(TRUE)
        /\ model_dict.v["gguf_file"] = pick_representative_gguf_file(found_files)
        /\ MetadataFields \cap DOMAIN model_dict.v = {}
        /\ \A k \in DOMAIN given.v : model_dict.v[k] = given.v[k]

\* a ModelScope record whose extraction ended on a not-found answer of the tool
C5_Witness ==
    /\ ExtractionFailed
    /\ source = S_modelscope
    /\ GaveNotFound(events[Len(events)])
    /\ model_dict.v["is_gguf"] = Bool(TRUE)
    /\ model_dict.v["gguf_file"] = Str(F_Q4_K_M)

\* the extraction client was called and returned a record
ExtractionSucceeded == epc = "done" /\ cpc = "done" /\ IsMetadataRecord(ret)

\* C16: when the extraction returns a record, the returned record has
\* is_gguf = True, gguf_file = the representative file and the six metadata
\* fields equal to the extracted record's fields; its other fields are as
\* they were given.
C16_SuccessfulExtractionMerged ==
    ExtractionSucceeded =>
        /\ DOMAIN model_dict.v = DOMAIN given.v \cup MetadataFields \cup {"is_gguf", "gguf_file"}
        /\ model_dict.v["is_gguf"] = Bool(TRUE)
        /\ model_dict.v["gguf_file"] = pick_representative_gguf_file(found_files)
        /\ model_dict.v["quantization"] = ret.v["quantization"]
        /\ model_dict.v["gguf_architecture"] = ret.v["architecture"]
        /\ model_dict.v["context_length"] = ret.v["context_length"]
        /\ model_dict.v["parameter_count"] = ret.v["parameters"]
        /\ model_dict.v["vram_required_gb"] = ret.v["vram_required_gb"]
        /\ model_dict.v["bits_per_weight"] = ret.v["bits_per_weight"]
        /\ \A k \in DOMAIN given.v : model_dict.v[k] = given.v[k]

\* a Hugging Face record merged with a record that has a parameter count
C16_Witness ==
    /\ ExtractionSucceeded
    /\ source = S_huggingface
    /\ ret.v["parameters"] # None
    /\ model_dict.v["parameter_count"] = ret.v["parameters"]
    /\ model_dict.v["quantization"] = Str(S_Q4_K_M)

\* the file names of the hub's answer, as the hub spelled them
ListedNames ==
    LET files == ListedFiles(source, answer.json).v
    IN  {files[i].v[NameKey(source)].v : i \in 1..Len(files)}

\* C17: every command the enrichment has the tool run is the executable, the
\* two locator flags of the backend (--hf-repo, --hf-file on Hugging Face,
\* --ms-repo, --ms-file on ModelScope), the repo id, a file name spelled as
\* the hub listed it, and --json; the file name recorded in the returned
\* record is spelled that way too.
C17_FilenamePassedUnchanged ==
    /\ \A i \in RunIndices :
        events[i].cmd # <<>> =>
            /\ Len(events[i].cmd) = 6
            /\ events[i].cmd[1] = S_parser_exe
            /\ events[i].cmd[2] = IF source = S_huggingface THEN S_hf_repo_flag
                                  ELSE S_ms_repo_flag
            /\ events[i].cmd[3] = repo_id
            /\ events[i].cmd[4] = IF source = S_huggingface THEN S_hf_file_flag
                                  ELSE S_ms_file_flag
            /\ events[i].cmd[5] \in ListedNames
            /\ events[i].cmd[5] = gguf_file.v
            /\ events[i].cmd[6] = S_json_flag
    /\ (epc = "done" /\ model_dict # given) =>
            /\ model_dict.v["gguf_file"].v \in ListedNames
            /\ \E i \in 1..Len(found_files) : found_files[i] = model_dict.v["gguf_file"].v

\* ModelScope is asked for a file whose extension the hub spells in capitals
C17_Witness ==
    /\ source = S_modelscope
    /\ cpc = "done"
    /\ Len(events) > 0
    /\ events[1].cmd # <<>>
    /\ events[1].cmd[2] = S_ms_repo_flag
    /\ events[1].cmd[4] = S_ms_file_flag
    /\ events[1].cmd[5] = F_Q5_K_S_upper

\* a step that calls the extraction client
CallStarts == cpc = "idle" /\ cpc' # "idle"

\* a step of a running enrichment that changes its record
RecordModified == epc # "idle" /\ epc' # "idle" /\ model_dict' # model_dict

\* C24: an enrichment calls the extraction client at most once, in the step
\* in which the listing was fetched and gave a non-empty list of files and
\* a file was picked from it, and with that file; the record is as given
\* while the call runs and is modified only once the call has returned.
C24_EnrichmentOrder ==
    [][/\ CallStarts =>
            /\ epc = "idle"
            /\ epc' = "parse"
            /\ answer'.kind = "response"
            /\ found_files' # <<>>
            /\ \E i \in 1..Len(found_files') : found_files'[i] = gguf_file'.v
            /\ gguf_file' = pick_representative_gguf_file(found_files')
            /\ args'[2] = repo_id'
            /\ args'[4] = gguf_file'.v
       /\ epc' = "parse" => model_dict' = given'
       /\ RecordModified =>
            /\ epc = "parse"
            /\ cpc = "done"
            /\ cpc' = "done"
            /\ gguf_metadata' = ret]_vars

\* an enrichment that merged what the client returned after more than one
\* attempt on the file picked among several
C24_Witness ==
    /\ epc = "done"
    /\ cpc = "done"
    /\ Cardinality(RunIndices) >= 2
    /\ Len(found_files) >= 2
    /\ IsMetadataRecord(gguf_metadata)
    /\ model_dict # given
    /\ model_dict.v["gguf_file"] = gguf_file

\* the name n ends in .gguf, whatever the case of its letters
IsGgufName(n) ==
    /\ Len(n) >= 5
    /\ Lower(SubSeq(n, Len(n) - 4, Len(n))) = <<".", "g", "g", "u", "f">>

\* the hub answered with a well-formed listing that has a .gguf file
HasQualifyingFile ==
    /\ answer.kind = "response"
    /\ answer.status_code = 200
    /\ LET files == ListedFiles(source, answer.json)
       IN  /\ files.t = "arr"
           /\ \A i \in 1..Len(files.v) :
                /\ files.v[i].t = "obj"
                /\ NameKey(source) \in DOMAIN files.v[i].v
                /\ files.v[i].v[NameKey(source)].t = "str"
           /\ \E i \in 1..Len(files.v) : IsGgufName(files.v[i].v[NameKey(source)].v)

\* C6: when the listing was requested and has no qualifying .gguf file (it is
\* empty, has other files only, or the listing failed), the call returns at
\* once with the record as it was given and never calls the extraction client.
C6_NoQualifyingFileUnchanged ==
    (answer.kind # "none" /\ ~HasQualifyingFile) =>
        /\ epc = "done"
        /\ model_dict = given
        /\ cpc = "idle"
        /\ events = <<>>

\* a listing served with files, none of them a .gguf file
C6_Witness ==
    /\ epc = "done"
    /\ answer.kind = "response"
    /\ answer.status_code = 200
    /\ ListedFiles(source, answer.json) = Arr(<<Obj([rfilename |-> Str(F_readme)]),
                                                Obj([rfilename |-> Str(F_gguf_part)])>>)
    /\ found_files = <<>>
    /\ model_dict = given
    /\ "url" \in DOMAIN given.v

-----------------------------------------------------------------------------
(* Claims on the scrape passes *)

\* the places of the trace where the enrichment was called and where a
\* record was appended to models
EnrichCalls == {j \in DOMAIN trace : trace[j].e = "enrich"}
Appends == {j \in DOMAIN trace : trace[j].e = "append"}

\* the place in models of the record appended at place k of the trace
Rank(k) == Cardinality({a \in Appends : a <= k})

\* the length of the list that query q iterates
ListLength(q) ==
    trace[CHOOSE d \in DOMAIN trace : trace[d].e = "data" /\ trace[d].q = q].i

\* C7: in a pass every entry the enrichment is called for is appended once to
\* the output, by the step that follows the call whatever the enrichment
\* gave, with no except clause run, and the loop goes on to the entry after
\* it when there is one.
C7_EnrichedCandidateKept ==
    /\ Len(models) = Cardinality(Appends)
    /\ \A j \in EnrichCalls :
        LET q == trace[j].q
            i == trace[j].i
        IN  /\ Cardinality({k \in Appends : trace[k].q = q /\ trace[k].i = i}) <= 1
            /\ IF j = Len(trace)
               THEN spc = "enrich" /\ query = q /\ pos = i
               ELSE /\ trace[j + 1].e = "append"
                    /\ trace[j + 1].q = q
                    /\ trace[j + 1].i = i
                    /\ trace[j + 1].url = trace[j].url
                    /\ models[Rank(j + 1)].v["url"] = trace[j].url
                    /\ Cardinality({k \in Appends : trace[k].q = q /\ trace[k].i = i}) = 1
                    /\ i < ListLength(q) =>
                        IF j + 1 = Len(trace)
                        THEN spc = "loop" /\ query = q /\ pos = i + 1
                        ELSE trace[j + 2] = [e |-> "visit", q |-> q, i |-> i + 1]

\* a finished pass in which an entry came out of the enrichment flagged but
\* without metadata and a later entry of the same list was enriched and kept
C7_Witness ==
    /\ spc = "done"
    /\ \E j1, j2 \in EnrichCalls :
        /\ j1 < j2
        /\ trace[j1].q = trace[j2].q
        /\ j2 < Len(trace)
        /\ LET r1 == models[Rank(j1 + 1)]
               r2 == models[Rank(j2 + 1)]
           IN  /\ "is_gguf" \in DOMAIN r1.v
               /\ r1.v["is_gguf"] = Bool(TRUE)
               /\ "quantization" \notin DOMAIN r1.v
               /\ "quantization" \in DOMAIN r2.v

\* the repository id in the url of a record of the pass of hub
RepoOfRecord(rec) ==
    Replace(rec.v["url"].v, IF hub = S_huggingface THEN S_hf_url ELSE S_ms_url, <<>>)

\* the answer a of hub src to a listing request is a well-formed listing
\* with a name that ends, in any case, in .gguf
HasGgufFile(src, a) ==
    /\ a.kind = "response"
    /\ a.status_code = 200
    /\ LET files == ListedFiles(src, a.json)
       IN  /\ files.t = "arr"
           /\ \A i \in 1..Len(files.v) :
                /\ files.v[i].t = "obj"
                /\ NameKey(src) \in DOMAIN files.v[i].v
                /\ files.v[i].v[NameKey(src)].t = "str"
           /\ \E i \in 1..Len(files.v) : IsGgufName(files.v[i].v[NameKey(src)].v)

\* C22: every record a scrape pass returns whose repository lists a file
\* ending in .gguf is flagged is_gguf, whichever hub and whichever listing
\* query returned it first.
C22_GgufRepoFlagged ==
    spc = "done" =>
        \A i \in 1..Len(models) :
            LET id == RepoOfRecord(models[i])
            IN  (id \in Repos /\ HasGgufFile(hub, ListingChoices(hub)[repo_files[id]]))
                    => Truthy(PyGet(models[i], "is_gguf", None))

\* the list that query q of the pass iterates
ListOf(q) ==
    LET d == CHOOSE k \in DOMAIN trace : trace[k].e = "data" /\ trace[k].q = q
    IN  ModelList(hub, Responses(hub)[trace[d].r].json).v

Answered(q) == \E k \in DOMAIN trace : trace[k].e = "data" /\ trace[k].q = q

\* the url line 377 builds for an entry of a listing, as the records hold it
UrlOfEntry(model) == Str(S_hf_url \o PyGet(model, "id", Str(<<>>)).v)

\* the entries of a listing that can be turned into a record
HasId(model) ==
    /\ model.t = "obj"
    /\ Truthy(PyGet(model, "id", Str(<<>>)))

\* query q returned an entry of the url
Returned(q, url) ==
    /\ Answered(q)
    /\ \E i \in 1..Len(ListOf(q)) :
        HasId(ListOf(q)[i]) /\ UrlOfEntry(ListOf(q)[i]) = url

\* the loop of query q came to an entry of the url
Reached(q, url) ==
    \E k \in DOMAIN trace :
        /\ trace[k].e = "visit"
        /\ trace[k].q = q
        /\ HasId(ListOf(q)[trace[k].i])
        /\ UrlOfEntry(ListOf(q)[trace[k].i]) = url

NoDuplicateUrls ==
    \A i \in 1..Len(models) : \A j \in 1..Len(models) :
        i # j => models[i].v["url"] # models[j].v["url"]

OnlyThirdQueryEnriches ==
    /\ \A k \in EnrichCalls : trace[k].q = 3
    /\ \A k \in Appends : trace[k].q = 3 <=> (k - 1) \in EnrichCalls

\* every record was made by the first query whose loop came to its url
MadeByFirstToReach ==
    \A k \in Appends : \A q \in 1..3 : q < trace[k].q => ~Reached(q, trace[k].url)

\* C30: scrape_huggingface's list never holds two records of one url; a url
\* becomes a record at most once, in the first query that returned it, and
\* only the third query's records go through the enrichment.
C30_OneRecordPerUrl ==
    hub = S_huggingface =>
        /\ NoDuplicateUrls
        /\ OnlyThirdQueryEnriches
        /\ \A k \in Appends : \A q \in 1..3 :
                q < trace[k].q => ~Returned(q, trace[k].url)

\* what of it holds: the first query that reached the url made the record
C30_Holds ==
    hub = S_huggingface =>
        /\ NoDuplicateUrls
        /\ OnlyThirdQueryEnriches
        /\ MadeByFirstToReach

-----------------------------------------------------------------------------
(* Claims on the dashboard *)

\* the background threads that are inside model_scraper.main()
Running == {w \in Runs : wpc[w] = "main"}

\* C18: at most one background scraper run is in progress at any time.
C18_AtMostOneRun == Cardinality(Running) <= 1

\* C26: once a refresh has set scraping_in_progress and started its
\* thread, the flag becomes false again, whether the run returns or raises;
\* under fair scheduling it is never stuck at true.
C26_FlagEventuallyCleared == scraping_in_progress ~> ~scraping_in_progress

\* a run that raised has ended and the flag is false
C26_Witness ==
    /\ ~scraping_in_progress
    /\ \E w \in Runs :
        /\ wpc[w] = "ended"
        /\ scraping_status.last_result # None
        /\ scraping_status.last_result.run = w
        /\ ~scraping_status.last_result.success

\* C28: a /api/refresh request that finds scraping_in_progress true is
\* answered 400 'already_running', starts no thread and changes none of scraping_in_progress, last_update, last_result.
C28_AlreadyRunningFrame ==
    [][\A t \in Requests :
        (rpc[t] = "test" /\ rpc'[t] # "test" /\ scraping_in_progress) =>
            /\ answered'[t].code = 400
            /\ answered'[t].status = "already_running"
            /\ rpc'[t] = "idle"
            /\ wpc' = wpc
            /\ scraping_in_progress' = scraping_in_progress
            /\ scraping_status' = scraping_status]_vars

\* a request was refused while a run that had been stamped was under way
C28_Witness ==
    /\ scraping_in_progress
    /\ scraping_status.last_update # None
    /\ \E w \in Runs : wpc[w] = "main"
    /\ \E t \in Requests :
        /\ rpc[t] = "idle"
        /\ answered[t] # None
        /\ answered[t].code = 400
        /\ answered[t].last_update = scraping_status.last_update

\* C27: whenever scraping_in_progress is false and the background run that
\* ended last had returned or raised an Exception, last_result is not null
\* and is the outcome of that run.
C27_LastResultIsLatest ==
    (~scraping_in_progress /\ finished # None /\ finished.wrote) =>
        /\ scraping_status.last_result # None
        /\ scraping_status.last_result.run = finished.run

-----------------------------------------------------------------------------
(* Claims on the database *)

\* a row without its updated_at
Stored(r) == [k \in DOMAIN r \ {"updated_at"} |-> r[k]]

OneRowPerUrl == \A r1 \in db_rows : \A r2 \in db_rows : r1.url = r2.url => r1 = r2

\* C19: the table holds at most one row per url, and after the same records
\* were saved a second time every row is, but for updated_at, what it was
\* after the first save and no row was added.
C19_IdempotentUpsert ==
    /\ OneRowPerUrl
    /\ db_first # None =>
        /\ Cardinality(db_rows) = Cardinality(db_first.v)
        /\ {Stored(r) : r \in db_rows} = {Stored(r) : r \in db_first.v}

\* two different records of one url were saved twice, and the second save
\* stamped the row anew
C19_Witness ==
    /\ db_first # None
    /\ Len(db_batch) = 2
    /\ db_batch[1] # db_batch[2]
    /\ db_batch[1].v["url"] = db_batch[2].v["url"]
    /\ db_rows # {}
    /\ db_rows # db_first.v

\* the columns only an INSERT writes
InsertedColumns == {"name", "source", "description", "category", "size_gb",
                    "is_chinese", "release_date", "tags"}

\* C29: every stored row has, in its enrichment columns and in downloads and
\* likes, what the last record saved for its url carried (0 and NULL for a
\* record without enrichment fields), and in name, source, description,
\* category, size_gb, is_chinese, release_date and tags what the first
\* record saved for its url carried.
C29_LastAndFirstRecord ==
    \A r \in db_rows :
        /\ r.url \in DOMAIN db_history
        /\ LET last == Parameters(db_history[r.url].last, None)
               first == Parameters(db_history[r.url].first, None)
           IN  /\ \A k \in UpdatedColumns \ {"updated_at"} : r[k] = last[k]
               /\ \A k \in InsertedColumns : r[k] = first[k]

\* a url saved first enriched and last without enrichment fields: its row
\* keeps the first record's tags and has the flag and the file reset
C29_Witness ==
    \E r \in db_rows :
        /\ r.url \in DOMAIN db_history
        /\ db_history[r.url].first = R_enriched
        /\ db_history[r.url].last = R_retagged
        /\ r.is_gguf = Num(0)
        /\ r.gguf_file = None
        /\ r.tags # Parameters(R_retagged, None).tags

====
